---- MODULE Spec2Model ----
(***************************************************************************)
(* Webhook ingestion and message relay pipeline of the CRT client app:     *)
(*   - netlify/functions/meta-webhook-verification.js (GET handshake)      *)
(*   - netlify/functions/meta-webhook-handler.js      (POST ingestion,     *)
(*     processMessage)                                                     *)
(* The helper modules the handler requires (message-queue, error-recovery, *)
(* session-manager, webhook-security, message-processor) are modelled from *)
(* their specification.                                                    *)
(***************************************************************************)
EXTENDS Integers, Sequences, FiniteSets, TLC

\* JavaScript's undefined / null (a missing query parameter, a null userId).
NULL == "undefined"

\* A value is truthy in the handlers' `if (!x)` tests: strings only here.
Truthy(x) == x # NULL /\ x # ""

------------------------------------------------------------------------------
(* Bounds of the model *)

\* Largest number of rows of webhook_configs.
MaxConfigs == 2

\* Length of the scripted behaviour of an operation run by the retry executor
\* (longer than every retry budget, so that an over-long run shows).
MaxOperationCalls == 4

\* Number of concurrent invocations of the ingestion function (one webhook
\* delivery each).
MaxInvocations == 2

\* Largest number of events in the payload of a delivery.
MaxEvents == 2

\* Number of failures the environment injects into the external calls of one
\* invocation running alone.
MaxFaults == 3

\* Number of failures the environment injects into the external calls of
\* concurrent invocations.
MaxConcurrentFaults == 1

\* Number of failures the environment injects into the external calls of an
\* invocation that handles a payload of two text messages.
MaxBatchFaults == 2

\* Number of failures the environment injects into the external calls of an
\* invocation that handles a payload of three text messages.
MaxDrainFaults == 1

\* Number of events the auth client emits while the App component is watched.
MaxAuthEvents == 2

\* App.tsx:92, the retries of initializeAuth.
maxRetries == 3

\* processPendingMessages(processMessage, 2): the limit of the inline drain.
DrainLimit == 2

------------------------------------------------------------------------------
(* Verification endpoint: meta-webhook-verification.js *)

VARIABLES
    webhook_configs,   \* rows of the webhook_configs table
    vSupabase,         \* the module-level client of the verification function is non-null
    vEvent,            \* the event the endpoint is invoked with
    vStoreError,       \* the data store answers the lookup of vEvent with an error
    vQueries,          \* number of webhook_configs lookups issued while handling vEvent
    vResponse          \* the response to vEvent

verifyVars == <<webhook_configs, vSupabase, vEvent, vStoreError, vQueries, vResponse>>

Tenants == {"T1", "T2"}
Platforms == {"facebook", "instagram"}
Tokens == {"tokA", "tokB"}

\* A row of webhook_configs.
WebhookConfig ==
    [verification_token : Tokens, user_id : Tenants, platform : Platforms,
     is_active : BOOLEAN]

\* event.path.split('/') of the paths a handshake is sent to.
VerifyPaths ==
    { <<"", "api", "webhooks", "T1", "facebook", "1700">>,
      <<"", "api", "webhooks", "T2", "facebook", "1700">>,
      <<"", "api", "webhooks", "T1", "instagram", "1700">>,
      <<"", "api", "webhooks", "T1", "facebook">>,
      <<"", "api", "webhooks", "", "facebook", "1700">>,
      <<"", "api", "webhooks", "T1", "all", "1700">>,
      <<"", "api", "hooks", "T1", "facebook", "1700">>,
      <<"", ".netlify", "functions", "meta-webhook-verification">> }

\* The handshake requests: every GET over the parameter values, and one request
\* of each other method.
VerifyEvents ==
    [httpMethod : {"GET"},
     mode : {"subscribe", "unsubscribe", NULL},
     token : Tokens \cup {NULL, ""},
     challenge : {"ch1", NULL},
     pathSegments : VerifyPaths]
    \cup
    [httpMethod : {"OPTIONS", "POST"},
     mode : {"subscribe"},
     token : {"tokA"},
     challenge : {"ch1"},
     pathSegments : {<<"", "api", "webhooks", "T1", "facebook", "1700">>}]

\* meta-webhook-verification.js:62-69, the tenant of the path (null when absent).
VerifyUserId(pathSegments) ==
    IF Len(pathSegments) >= 5 /\ pathSegments[3] = "webhooks"
    THEN pathSegments[4] ELSE NULL

\* meta-webhook-verification.js:62-69, the channel of the path ('all' when absent).
VerifyPlatform(pathSegments) ==
    IF Len(pathSegments) >= 5 /\ pathSegments[3] = "webhooks"
    THEN pathSegments[5] ELSE "all"

\* The query built at meta-webhook-verification.js:86-94 without the tenant filter.
WebhookConfigQueryNoTenant(configs, token, userId, platform) ==
    { c \in configs :
        /\ c.verification_token = token
        /\ (Truthy(platform) /\ platform # "all") => c.platform = platform }

\* The query built at meta-webhook-verification.js:86-94: rows with the token,
\* filtered by user_id when the path carries one, by platform unless 'all'.
WebhookConfigQuery(configs, token, userId, platform) ==
    { c \in configs :
        /\ c.verification_token = token
        /\ Truthy(userId) => c.user_id = userId
        /\ (Truthy(platform) /\ platform # "all") => c.platform = platform }

Response(status, body) == [statusCode |-> status, body |-> body]

\* The handler has not answered yet.
NoResponse == [statusCode |-> 0, body |-> NULL]

\* A handler that issues the lookup before it checks the parameters.
VerificationQueriesEager(event, client) ==
    IF event.httpMethod = "GET" /\ client THEN 1 ELSE 0

\* Whether the handler reaches the lookup of meta-webhook-verification.js:95.
VerificationQueries(event, client) ==
    IF /\ event.httpMethod = "GET" /\ event.mode = "subscribe"
       /\ Truthy(event.token) /\ client
    THEN 1 ELSE 0

\* A lookup error answered like a token that matches nothing.
LookupErrorResponseUnauthorized == Response(401, "Invalid verification token")

\* meta-webhook-verification.js:96-99: the answer when the lookup returns an error.
LookupErrorResponse == Response(500, "Error verifying webhook token")

\* exports.handler of meta-webhook-verification.js: the response to `event`.
VerificationResponse(event, configs, client, storeError) ==
    IF event.httpMethod = "OPTIONS" THEN Response(204, NULL)
    ELSE IF event.httpMethod # "GET" THEN Response(405, "Method not allowed")
    ELSE IF event.mode # "subscribe" THEN Response(400, "Invalid hub.mode parameter")
    ELSE IF ~Truthy(event.token) THEN Response(400, "Missing hub.verify_token parameter")
    ELSE IF client /\ storeError THEN LookupErrorResponse
    ELSE IF /\ client
            /\ WebhookConfigQuery(configs, event.token,
                                  VerifyUserId(event.pathSegments),
                                  VerifyPlatform(event.pathSegments)) # {}
         THEN Response(200, event.challenge)
    ELSE Response(401, "Invalid verification token")

VerifyInit ==
    /\ webhook_configs \in { s \in SUBSET WebhookConfig : Cardinality(s) <= MaxConfigs }
    /\ vSupabase \in BOOLEAN
    /\ vEvent \in VerifyEvents
    /\ vStoreError \in
          IF VerificationQueries(vEvent, vSupabase) = 1 THEN BOOLEAN ELSE {FALSE}
    /\ vQueries = 0
    /\ vResponse = NoResponse

\* One invocation of the verification function on the event vEvent.
VerificationHandler ==
    /\ vResponse = NoResponse
    /\ vQueries' = VerificationQueries(vEvent, vSupabase)
    /\ vResponse' = VerificationResponse(vEvent, webhook_configs, vSupabase, vStoreError)
    /\ UNCHANGED <<webhook_configs, vSupabase, vEvent, vStoreError>>

\* The endpoint is not under study: no configuration, no request.
VerifyIdle ==
    /\ webhook_configs = {}
    /\ vSupabase = FALSE
    /\ vEvent = NULL
    /\ vStoreError = FALSE
    /\ vQueries = 0
    /\ vResponse = NoResponse

------------------------------------------------------------------------------
(* Claims about the verification endpoint *)

\* The endpoint has answered a handshake that passed the parameter checks.
HandshakeAnswered ==
    /\ vResponse # NoResponse
    /\ vEvent.httpMethod = "GET"
    /\ vEvent.mode = "subscribe"
    /\ vEvent.token # NULL /\ vEvent.token # ""

\* The path has the form /api/webhooks/{tenant}/{channel}[/...].
HandshakePathIsWebhookPath ==
    Len(vEvent.pathSegments) >= 5 /\ vEvent.pathSegments[3] = "webhooks"

\* The path carries a tenant.
HandshakePathHasTenant ==
    HandshakePathIsWebhookPath /\ vEvent.pathSegments[4] # ""

\* The path carries a channel ('all' stands for no channel).
HandshakePathHasChannel ==
    /\ HandshakePathIsWebhookPath
    /\ vEvent.pathSegments[5] # "" /\ vEvent.pathSegments[5] # "all"

\* C10 as stated: a handshake with mode subscribe and a non-empty token is answered
\* 200 with the challenge iff a WebhookConfig has the token, the tenant of the path
\* (when the path carries one) and the channel of the path; otherwise 401.
C10_HandshakeDecisionAsStated ==
    HandshakeAnswered =>
        IF \E c \in webhook_configs :
              /\ c.verification_token = vEvent.token
              /\ HandshakePathHasTenant => c.user_id = vEvent.pathSegments[4]
              /\ HandshakePathIsWebhookPath
              /\ c.platform = vEvent.pathSegments[5]
        THEN vResponse = Response(200, vEvent.challenge)
        ELSE vResponse.statusCode = 401

\* C10 amended: with the data-store client configured and the lookup answered
\* without error, the handshake is answered 200 with the challenge verbatim iff a
\* WebhookConfig has the token, the tenant of the path when the path carries one and
\* the channel of the path when the path carries one (other than 'all'), and 401
\* otherwise; a lookup error is answered 500 and a missing client 401. A token
\* configured only for tenant A never verifies a handshake on tenant B's path.
C10_HandshakeDecision ==
    HandshakeAnswered =>
        /\ IF ~vSupabase THEN vResponse.statusCode = 401
           ELSE IF vStoreError THEN vResponse.statusCode = 500
           ELSE IF \E c \in webhook_configs :
                     /\ c.verification_token = vEvent.token
                     /\ HandshakePathHasTenant => c.user_id = vEvent.pathSegments[4]
                     /\ HandshakePathHasChannel => c.platform = vEvent.pathSegments[5]
                THEN vResponse = Response(200, vEvent.challenge)
                ELSE vResponse.statusCode = 401
        /\ (vResponse.statusCode = 200 /\ HandshakePathHasTenant) =>
              \E c \in webhook_configs :
                  /\ c.user_id = vEvent.pathSegments[4]
                  /\ c.verification_token = vEvent.token

\* C10 witness: a handshake on tenant T2's path is verified while tenant T1 holds a
\* configuration with the same token.
C10_Witness ==
    /\ HandshakeAnswered
    /\ vResponse = Response(200, "ch1")
    /\ vEvent.pathSegments[4] = "T2"
    /\ \E c \in webhook_configs :
          c.user_id = "T1" /\ c.verification_token = vEvent.token

\* C11: a handshake is answered 200 only if an active WebhookConfig has the token,
\* the tenant of the path (when it carries one) and the channel of the path (when
\* it carries one): a configuration whose activation flag is off verifies nothing.
C11_OnlyActiveConfigVerifies ==
    (HandshakeAnswered /\ vResponse.statusCode = 200) =>
        \E c \in webhook_configs :
            /\ c.is_active
            /\ c.verification_token = vEvent.token
            /\ HandshakePathHasTenant => c.user_id = vEvent.pathSegments[4]
            /\ HandshakePathHasChannel => c.platform = vEvent.pathSegments[5]

\* The endpoint has answered a GET.
GetAnswered == vResponse # NoResponse /\ vEvent.httpMethod = "GET"

\* C12: a GET whose hub.mode is not 'subscribe' or whose hub.verify_token is absent
\* or empty is answered 400 and no lookup of webhook_configs is issued, whatever the
\* path, the other parameters and the configurations.
C12_MalformedHandshakeRejected ==
    (GetAnswered /\ (vEvent.mode # "subscribe" \/ vEvent.token \in {NULL, ""})) =>
        (vResponse.statusCode = 400 /\ vQueries = 0)

\* C12 witness: a GET with mode 'unsubscribe', whose token, tenant and channel match
\* a configuration, is answered 400 without a lookup, the client being configured.
C12_Witness ==
    /\ GetAnswered /\ vEvent.mode = "unsubscribe" /\ vSupabase
    /\ \E c \in webhook_configs :
          /\ c.verification_token = vEvent.token
          /\ HandshakePathHasTenant /\ c.user_id = vEvent.pathSegments[4]
          /\ HandshakePathHasChannel /\ c.platform = vEvent.pathSegments[5]
    /\ vResponse.statusCode = 400 /\ vQueries = 0

\* C13 as stated: every answer to a GET is 200, 400 or 401, also when the client is
\* missing or the lookup returns an error.
C13_HandshakeStatusesAsStated ==
    GetAnswered => vResponse.statusCode \in {200, 400, 401}

\* C13: every answer to a GET is 200, 400, 401 or 500; it is 500 exactly when the
\* lookup was issued and returned an error, and a handshake that passed the
\* parameter checks with the client missing is answered 401.
C13_HandshakeStatuses ==
    GetAnswered =>
        /\ vResponse.statusCode \in {200, 400, 401, 500}
        /\ vResponse.statusCode = 500 <=> (vQueries = 1 /\ vStoreError)
        /\ (HandshakeAnswered /\ ~vSupabase) => vResponse.statusCode = 401

\* C13 witness: the lookup of a handshake returned an error and the answer is 500.
C13_Witness ==
    /\ HandshakeAnswered /\ vSupabase /\ vStoreError
    /\ vQueries = 1 /\ vResponse.statusCode = 500

------------------------------------------------------------------------------
(* Retry/backoff executor: retryWithBackoff and isTransientError of            *)
(* error-recovery, with the options of the call sites of processMessage       *)

\* The ways an external call fails.
ErrorKinds == {"timeout", "network", "http5xx", "http4xx", "validation"}

\* A classification that takes every error for transient.
IsTransientErrorAny(error) == TRUE

\* isTransientError(error): network errors, timeouts and 5xx are transient.
IsTransientError(error) == error \in {"timeout", "network", "http5xx"}

\* The operations processMessage wraps in retryWithBackoff.
RetrySites ==
    {"getSocialConnection", "getOrCreateConversation", "saveUserMessage",
     "getVoiceflowMapping", "getApiKey", "callVoiceflow", "saveAssistantMessage",
     "sendResponse"}

\* maxRetries of each call site.
MaxRetriesOf(site) ==
    CASE site = "getSocialConnection" -> 3
      [] site = "getOrCreateConversation" -> 3
      [] site = "saveUserMessage" -> 2
      [] site = "getVoiceflowMapping" -> 2
      [] site = "getApiKey" -> 2
      [] site = "callVoiceflow" -> 3
      [] site = "saveAssistantMessage" -> 2
      [] site = "sendResponse" -> 3

\* initialDelay (ms) of each call site.
InitialDelayOf(site) ==
    IF site \in {"callVoiceflow", "sendResponse"} THEN 1000 ELSE 300

\* maxDelay (ms) of each call site; 0 stands for none given.
MaxDelayOf(site) == IF site = "callVoiceflow" THEN 5000 ELSE 0

\* A shouldRetry that retries every error.
ShouldRetryAlways(site, error) == TRUE

\* shouldRetry of each call site: isTransientError(error), for callVoiceflow also
\* a response status >= 500; saveAssistantMessage passes none and gets the
\* executor's default, the classification by error shape.
ShouldRetry(site, error) ==
    IF site = "callVoiceflow"
    THEN IsTransientError(error) \/ error = "http5xx"
    ELSE IsTransientError(error)

\* The executor retries while attempt <= maxRetries: one call too many.
RetryAgainOffByOne(site, attempt, error) ==
    ShouldRetry(site, error) /\ attempt <= MaxRetriesOf(site)

\* retryWithBackoff after the attempt-th invocation failed with `error`: retry
\* when the error is retryable and attempts remain.
RetryAgain(site, attempt, error) ==
    ShouldRetry(site, error) /\ attempt < MaxRetriesOf(site)

\* The sleep before the retry that follows the attempt-th invocation:
\* min(initialDelay * attempt, maxDelay ?? +inf).
RetryDelay(site, attempt) ==
    LET d == InitialDelayOf(site) * attempt
    IN IF MaxDelayOf(site) # 0 /\ d > MaxDelayOf(site) THEN MaxDelayOf(site) ELSE d

VARIABLES
    rSite,      \* the call site whose options the executor runs with
    rScript,    \* what the operation does on its 1st, 2nd, ... invocation
    rCalls,     \* number of invocations of the operation so far
    rState,     \* "running", "returned" (a value) or "raised" (an error)
    rResult,    \* the value returned or the error raised
    rDelays     \* the sleeps between the invocations, in ms

retryVars == <<rSite, rScript, rCalls, rState, rResult, rDelays>>

OperationOutcomes == {"ok"} \cup ErrorKinds

RetryInit ==
    /\ rSite \in RetrySites
    /\ rScript \in [1..MaxOperationCalls -> OperationOutcomes]
    /\ rCalls = 0
    /\ rState = "running"
    /\ rResult = NULL
    /\ rDelays = <<>>

\* The operation is invoked and succeeds: its value is returned.
RetryOperationSucceeds ==
    /\ rState = "running" /\ rCalls < MaxOperationCalls
    /\ rScript[rCalls + 1] = "ok"
    /\ rCalls' = rCalls + 1
    /\ rState' = "returned"
    /\ rResult' = "ok"
    /\ UNCHANGED <<rSite, rScript, rDelays>>

\* The operation is invoked and fails; the executor sleeps and retries.
RetryOperationFailsAndRetries ==
    /\ rState = "running" /\ rCalls < MaxOperationCalls
    /\ rScript[rCalls + 1] # "ok"
    /\ RetryAgain(rSite, rCalls + 1, rScript[rCalls + 1])
    /\ rCalls' = rCalls + 1
    /\ rDelays' = Append(rDelays, RetryDelay(rSite, rCalls + 1))
    /\ UNCHANGED <<rSite, rScript, rState, rResult>>

\* The operation is invoked and fails; the executor re-raises the error.
RetryOperationFailsAndRaises ==
    /\ rState = "running" /\ rCalls < MaxOperationCalls
    /\ rScript[rCalls + 1] # "ok"
    /\ ~RetryAgain(rSite, rCalls + 1, rScript[rCalls + 1])
    /\ rCalls' = rCalls + 1
    /\ rState' = "raised"
    /\ rResult' = rScript[rCalls + 1]
    /\ UNCHANGED <<rSite, rScript, rDelays>>

\* The executor is not under study.
RetryIdle ==
    /\ rSite = NULL
    /\ rScript = <<>>
    /\ rCalls = 0
    /\ rState = "idle"
    /\ rResult = NULL
    /\ rDelays = <<>>

------------------------------------------------------------------------------
(* Ingestion handler and processMessage: meta-webhook-handler.js, with the    *)
(* queue (message-queue), the sessions (session-manager), the dead-letter     *)
(* recorder (error-recovery) and the normalisers (message-processor)           *)

VARIABLES
    supabase,            \* the handler module's data-store client is non-null
    social_connections,  \* rows [user_id, platform, account_id, access_token]
    voiceflow_mappings,  \* tenants with a row in voiceflow_mappings
    voiceflow_api_keys,  \* tenants with a row in voiceflow_api_keys
    envApiKey,           \* VOICEFLOW_API_KEY is set
    message_queue,       \* rows of the queue, in insertion order
    sessions,            \* rows of the sessions, in insertion order
    conversations,       \* rows of conversations, in insertion order
    messages,            \* rows of messages, in insertion order
    dead_letter_queue,   \* dead-letter records, in insertion order
    aiCalls,             \* requests POSTed to the AI backend
    outbound,            \* requests POSTed to the platform's send API
    inv,                 \* the state of each invocation of the function
    faults,              \* failures the environment may still inject
    deliveries,          \* the workload: which POSTs the platform may deliver
    replies              \* the replies the AI backend may give

storeVars ==
    <<supabase, social_connections, voiceflow_mappings, voiceflow_api_keys, envApiKey,
      message_queue, sessions, conversations, messages, dead_letter_queue>>

pipeVars == <<storeVars, aiCalls, outbound, inv, faults, deliveries, replies>>

\* A messaging event of a webhook payload: an element of entry.messaging (Facebook)
\* or of entry.changes (Instagram, whose value carries the same fields).
EventShape(sender, hasMessage, isEcho, postback, field) ==
    [sender |-> sender, recipient |-> "P1", hasMessage |-> hasMessage,
     is_echo |-> isEcho, mid |-> "m1", text |-> "Hello",
     postback |-> postback, field |-> field, timestamp |-> 1700]

FbText == EventShape("S1", TRUE, FALSE, NULL, NULL)
FbEcho == EventShape("P1", TRUE, TRUE, NULL, NULL)
FbPostback == EventShape("S1", FALSE, FALSE, "GET_STARTED", NULL)
FbNoSender == EventShape(NULL, TRUE, FALSE, NULL, NULL)
FbDelivery == EventShape("S1", FALSE, FALSE, NULL, NULL)
IgMessage == EventShape("S1", TRUE, FALSE, NULL, "messages")
IgComment == EventShape("S1", FALSE, FALSE, NULL, "comments")
IgPostback == EventShape("S1", FALSE, FALSE, "GET_STARTED", "messaging_postbacks")

\* A second text message of the same contact, sent later.
FbLater == [FbText EXCEPT !.mid = "m2", !.timestamp = 1800]

\* A text message of another contact of the same page.
FbOther == [FbText EXCEPT !.sender = "S2", !.mid = "m3"]

\* The payloads of two text messages: the same message twice, two messages of
\* one contact, and messages of two contacts.
TextBatches == { <<FbText, FbText>>, <<FbText, FbLater>>, <<FbText, FbOther>> }

\* A payload of more text messages than the inline drain takes.
LongBatch == <<FbText, FbLater, FbOther>>

\* No event: the loop over the events has examined none yet.
NoEventShape == EventShape(NULL, FALSE, FALSE, NULL, NULL)

EventShapes ==
    {FbText, FbEcho, FbPostback, FbNoSender, FbDelivery, IgMessage, IgComment, IgPostback}

\* Sequences over S of length 1..n.
SeqUpTo(S, n) == UNION { [1..k -> S] : k \in 1..n }

\* The bodies of the POSTs: text that is not JSON, a payload of another object, a
\* payload without entry list, an entry without events, and entries of events.
PostBodies ==
    { [json |-> FALSE, object |-> NULL, hasEntry |-> FALSE, hasEvents |-> FALSE, events |-> <<>>],
      [json |-> TRUE, object |-> "user", hasEntry |-> TRUE, hasEvents |-> TRUE,
       events |-> <<FbText>>],
      [json |-> TRUE, object |-> "page", hasEntry |-> FALSE, hasEvents |-> FALSE, events |-> <<>>],
      [json |-> TRUE, object |-> "page", hasEntry |-> TRUE, hasEvents |-> FALSE, events |-> <<>>] }
    \cup
    [json : {TRUE}, object : {"page", "instagram"}, hasEntry : {TRUE}, hasEvents : {TRUE},
     events : SeqUpTo(EventShapes, MaxEvents) \cup TextBatches \cup {LongBatch}]

\* event.path.split('/') of the paths a POST is sent to.
PostPaths ==
    { <<"", "api", "webhooks", "T1", "facebook", "1700">>,
      <<"", "api", "webhooks", "T1", "instagram", "1700">>,
      <<"", "api", "webhooks", "T1", "twitter", "1700">>,
      <<"", "api", "webhooks", "", "facebook", "1700">>,
      <<"", ".netlify", "functions", "meta-webhook-handler">> }

\* meta-webhook-handler.js:370-376, the tenant of the path (null when absent).
PathUserId(pathSegments) ==
    IF Len(pathSegments) >= 5 /\ pathSegments[3] = "webhooks"
    THEN pathSegments[4] ELSE NULL

\* meta-webhook-handler.js:370-376, the channel of the path (null when absent).
PathPlatform(pathSegments) ==
    IF Len(pathSegments) >= 5 /\ pathSegments[3] = "webhooks"
    THEN pathSegments[5] ELSE NULL

\* The POSTs: whether META_APP_SECRET is set, the verdict of
\* validateWebhook(event.headers, body, appSecret), the path and the body.
PostEvents ==
    { e \in [secret : BOOLEAN, signatureValid : BOOLEAN, pathSegments : PostPaths,
             body : PostBodies] :
        \/ e.body.hasEvents /\ e.body.object # "user" /\ e.secret /\ e.signatureValid
             /\ PathPlatform(e.pathSegments) \in {"facebook", "instagram"}
             /\ PathUserId(e.pathSegments) = "T1"
        \/ e.body.events = <<>>
        \/ e.body.events = <<FbText>> }

\* A response of the ingestion handler: status code, body.status (or the error
\* of a 4xx), and the queued / processed counts of a success body.
HandlerResponse(statusCode, status, queued, processed) ==
    [statusCode |-> statusCode, status |-> status, queued |-> queued,
     processed |-> processed]

NoHandlerResponse == HandlerResponse(0, NULL, 0, 0)

\* The signature check of a handler that goes on after a failed validation.
SignatureRejectedNever(event) == FALSE

\* meta-webhook-handler.js:352-367: the request is rejected for its signature.
SignatureRejected(event) == event.secret /\ ~event.signatureValid

\* A catch that answers with a server error.
CaughtResponseServerError(error) == HandlerResponse(500, "error", 0, 0)

\* The catch of the handler, meta-webhook-handler.js:455-461: whatever was raised
\* in the try block is answered 200 with an error body.
CaughtResponse(error) == HandlerResponse(200, "error", 0, 0)

\* A prefix that checks the signature only.
EarlyResponseSignatureOnly(event) ==
    IF SignatureRejected(event)
    THEN HandlerResponse(401, "Invalid webhook signature", 0, 0)
    ELSE NoHandlerResponse

\* The synchronous prefix of the POST handler, meta-webhook-handler.js:351-412:
\* the response it ends with, or NoHandlerResponse when it goes on to the entries.
EarlyResponse(event) ==
    LET userId == PathUserId(event.pathSegments)
        platform == PathPlatform(event.pathSegments)
    IN  IF SignatureRejected(event)
        THEN HandlerResponse(401, "Invalid webhook signature", 0, 0)
        ELSE IF ~Truthy(userId) \/ ~Truthy(platform)
        THEN HandlerResponse(400, "Invalid webhook URL format", 0, 0)
        ELSE IF platform # "facebook" /\ platform # "instagram"
        THEN HandlerResponse(400, "Invalid platform", 0, 0)
        ELSE IF ~event.body.json
        THEN HandlerResponse(400, "Invalid request body", 0, 0)
        ELSE IF event.body.object # "page" /\ event.body.object # "instagram"
        THEN HandlerResponse(200, "ignored", 0, 0)
        ELSE NoHandlerResponse

\* A loop body that does not look at is_echo.
NormalizeEchoAsMessage(platform, evt) ==
    IF platform = "instagram" /\ evt.field = "messages" THEN "instagram"
    ELSE IF platform = "facebook" /\ evt.hasMessage
    THEN (IF evt.sender = NULL THEN "TypeError" ELSE "message")
    ELSE "skip"

\* What the loop body of meta-webhook-handler.js:419-438 does with one event:
\* "instagram", "message" or "postback" (the event is queued), "skip", or
\* "TypeError" (evt.sender is undefined).
Normalize(platform, evt) ==
    IF platform = "instagram" /\ evt.field = "messages" THEN "instagram"
    ELSE IF platform = "facebook" /\ evt.hasMessage /\ ~evt.is_echo
    THEN (IF evt.sender = NULL THEN "TypeError" ELSE "message")
    ELSE IF platform = "facebook" /\ evt.postback # NULL
    THEN (IF evt.sender = NULL THEN "TypeError" ELSE "postback")
    ELSE "skip"

\* The deliveries handled by one invocation running alone: every payload that
\* queues at most one event, and the payload of two text messages.
QueuedCount(e) ==
    Cardinality({ k \in 1..Len(e.body.events) :
                    Normalize(PathPlatform(e.pathSegments), e.body.events[k])
                        \in {"instagram", "message", "postback"} })

SequentialDeliveries ==
    { e \in PostEvents : QueuedCount(e) <= 1 \/ e.body.events = <<FbText, FbText>> }

\* The deliveries of a conversation: Facebook payloads of two text messages.
BatchDeliveries ==
    { e \in PostEvents : /\ PathPlatform(e.pathSegments) = "facebook"
                         /\ e.body.object = "page"
                         /\ e.body.events \in TextBatches }

\* The deliveries handled by concurrent invocations: one text message each.
ConcurrentDeliveries ==
    { [secret |-> TRUE, signatureValid |-> TRUE,
       pathSegments |-> <<"", "api", "webhooks", "T1", "facebook", "1700">>,
       body |-> [json |-> TRUE, object |-> "page", hasEntry |-> TRUE,
                 hasEvents |-> TRUE, events |-> <<FbText>>]] }

\* The deliveries that overfill the drain: Facebook payloads of three messages.
DrainDeliveries ==
    { e \in PostEvents : /\ PathPlatform(e.pathSegments) = "facebook"
                         /\ e.body.object = "page"
                         /\ e.body.events = LongBatch }

\* The POSTs the platform may deliver under a workload.
Deliveries(workload) ==
    IF workload = "sequential" THEN SequentialDeliveries
    ELSE IF workload = "concurrent" THEN ConcurrentDeliveries
    ELSE IF workload = "batch" THEN BatchDeliveries
    ELSE IF workload = "drain" THEN DrainDeliveries
    ELSE {}

\* The row queueMessage(userId, platform, senderId, recipientId, message, timestamp)
\* inserts: status pending, no attempt yet.
QueuedMessage(id, userId, platform, evt, kind) ==
    [id |-> id, user_id |-> userId, platform |-> platform,
     sender_id |-> evt.sender, recipient_id |-> evt.recipient,
     mid |-> IF kind = "postback" THEN "postback" ELSE evt.mid,
     text |-> IF kind = "postback" THEN evt.postback ELSE evt.text,
     kind |-> kind, timestamp |-> evt.timestamp,
     status |-> "pending", attempts |-> 0]

\* The result processMessage returns.
Result(success, warning, error) ==
    [success |-> success, warning |-> warning, error |-> error,
     transient |-> IsTransientError(error)]

NoResult == Result(FALSE, FALSE, NULL)

\* The invocation holds no request.
NoEvent ==
    [secret |-> FALSE, signatureValid |-> FALSE, pathSegments |-> <<>>,
     body |-> [json |-> FALSE, object |-> NULL, hasEntry |-> FALSE,
               hasEvents |-> FALSE, events |-> <<>>]]

\* voiceflowResponse.data, the body of the reply of the AI backend: an array of
\* items, or something that is not an array.
VoiceflowData(isArray, items) == [isArray |-> isArray, items |-> items]

\* The reply local of processMessage before the AI backend has answered.
NoReply == VoiceflowData(FALSE, <<>>)

\* The locals of an invocation that is not running.
IdleInvocation ==
    [pc |-> "idle", event |-> NoEvent, userId |-> NULL, platform |-> NULL,
     events |-> <<>>, last |-> NoEventShape, parsed |-> FALSE, queued |-> 0,
     enqueued |-> {},
     batch |-> <<>>, claimed |-> {}, processed |-> 0, results |-> <<>>,
     response |-> NoHandlerResponse, raised |-> NULL,
     msg |-> 0, attempt |-> 0, accessToken |-> NULL, sessionId |-> 0, convId |-> 0,
     savedId |-> 0, reply |-> NoReply, assistantId |-> 0, vfError |-> NULL,
     aiFailed |-> FALSE, aiOk |-> FALSE, extendInvoked |-> FALSE,
     dlqError |-> NULL, result |-> NoResult]

\* The locals of processMessage before it starts on a message.
ResetLocals(r) ==
    [r EXCEPT !.msg = 0, !.attempt = 0, !.accessToken = NULL, !.sessionId = 0,
              !.convId = 0, !.savedId = 0, !.reply = NoReply, !.assistantId = 0,
              !.vfError = NULL, !.aiFailed = FALSE, !.aiOk = FALSE,
              !.extendInvoked = FALSE, !.dlqError = NULL,
              !.result = NoResult]

SetInv(i, r) == inv' = [inv EXCEPT ![i] = r]

\* The errors the environment may make a data-store call / an HTTP call fail with.
StoreErrors == {"network", "validation"}
HttpErrors == {"timeout", "http4xx"}

\* The outcomes of an external call: it succeeds, or fails while failures remain.
Outcomes(errors) == {"ok"} \cup (IF faults > 0 THEN errors ELSE {})

Charge(outcome) == faults' = IF outcome = "ok" THEN faults ELSE faults - 1

------------------------------------------------------------------------------
(* exports.handler, POST *)

\* The platform delivers a POST and an invocation of the function starts.
ReceivePost(i) ==
    /\ inv[i].pc = "idle"
    /\ \E event \in Deliveries(deliveries) :
          SetInv(i, [IdleInvocation EXCEPT !.pc = "received", !.event = event])
    /\ UNCHANGED <<storeVars, aiCalls, outbound, faults, deliveries, replies>>

\* meta-webhook-handler.js:351-412: signature validation, path and body parsing.
\* The handler answers at once or goes on to the events of the payload; a payload
\* without entry list makes `for (const entry of data.entry)` raise, which the
\* catch of line 455 answers.
HandlerPrefix(i) ==
    /\ inv[i].pc = "received"
    /\ LET event == inv[i].event
           early == EarlyResponse(event)
           r == [inv[i] EXCEPT !.event = NoEvent]
       IN  SetInv(i,
             IF early # NoHandlerResponse
             THEN [r EXCEPT !.pc = "done", !.response = early,
                            !.parsed = ~SignatureRejected(event),
                            !.raised = IF early.status = "Invalid request body"
                                       THEN "JSON.parse" ELSE NULL]
             ELSE IF ~event.body.hasEntry
             THEN [r EXCEPT !.pc = "done", !.parsed = TRUE, !.raised = "data.entry",
                            !.response = CaughtResponse("data.entry")]
             ELSE [r EXCEPT !.pc = "enqueue", !.parsed = TRUE,
                            !.userId = PathUserId(event.pathSegments),
                            !.platform = PathPlatform(event.pathSegments),
                            !.events = event.body.events])
    /\ UNCHANGED <<storeVars, aiCalls, outbound, faults, deliveries, replies>>


\* meta-webhook-handler.js:416-440, one event of the payload (kept in `last` until
\* the drain starts): it is skipped, or
\* queueMessage persists it (or raises a data-store error), or reading
\* evt.sender.id raises.
EnqueueEvent(i) ==
    /\ inv[i].pc = "enqueue" /\ inv[i].events # <<>>
    /\ LET evt == Head(inv[i].events)
           kind == Normalize(inv[i].platform, evt)
           r == [inv[i] EXCEPT !.events = Tail(@), !.last = evt]
           id == Len(message_queue) + 1
       IN  IF kind = "skip"
           THEN SetInv(i, r) /\ UNCHANGED <<message_queue, faults>>
           ELSE IF kind = "TypeError"
           THEN /\ SetInv(i, [r EXCEPT !.pc = "done", !.raised = "evt.sender",
                                !.response = CaughtResponse("evt.sender")])
                /\ UNCHANGED <<message_queue, faults>>
           ELSE \E outcome \in Outcomes(StoreErrors) :
                /\ Charge(outcome)
                /\ IF outcome = "ok"
                   THEN /\ message_queue' = Append(message_queue,
                              QueuedMessage(id, inv[i].userId, inv[i].platform, evt, kind))
                        /\ SetInv(i, [r EXCEPT !.queued = @ + 1,
                                               !.enqueued = @ \cup {id}])
                   ELSE /\ UNCHANGED message_queue
                        /\ SetInv(i, [r EXCEPT !.pc = "done", !.raised = "queueMessage",
                                               !.response = CaughtResponse(outcome)])
    /\ UNCHANGED <<supabase, social_connections, voiceflow_mappings, voiceflow_api_keys,
                   envApiKey, sessions, conversations, messages, dead_letter_queue,
                   aiCalls, outbound, deliveries, replies>>

\* A claim without limit: every pending row.
RECURSIVE OldestPendingUnlimited(_, _, _)
OldestPendingUnlimited(queue, from, limit) ==
    IF from > Len(queue) THEN <<>>
    ELSE IF queue[from].status = "pending"
    THEN <<from>> \o OldestPendingUnlimited(queue, from + 1, limit)
    ELSE OldestPendingUnlimited(queue, from + 1, limit)

\* The ids of the rows a dequeueBatch(limit) claims: the oldest pending rows.
RECURSIVE OldestPending(_, _, _)
OldestPending(queue, from, limit) ==
    IF limit = 0 \/ from > Len(queue) THEN <<>>
    ELSE IF queue[from].status = "pending"
    THEN <<from>> \o OldestPending(queue, from + 1, limit - 1)
    ELSE OldestPending(queue, from + 1, limit)

\* A dequeue that reads the pending rows without marking them.
MarkClaimedNot(queue, ids) == queue

\* dequeueBatch marks the rows it claims as processing, in the same step.
MarkClaimed(queue, ids) ==
    [k \in 1..Len(queue) |->
        IF \E j \in 1..Len(ids) : ids[j] = k
        THEN [queue[k] EXCEPT !.status = "processing"]
        ELSE queue[k]]

\* meta-webhook-handler.js:443, processPendingMessages(processMessage, 2): once
\* every event is queued, dequeueBatch claims up to 2 pending rows; a data-store
\* error of the claim is raised to the handler.
DequeueBatch(i) ==
    /\ inv[i].pc = "enqueue" /\ inv[i].events = <<>>
    /\ \E outcome \in Outcomes(StoreErrors) :
        LET ids == OldestPending(message_queue, 1, DrainLimit)
        IN  /\ Charge(outcome)
            /\ IF outcome = "ok"
               THEN /\ message_queue' = MarkClaimed(message_queue, ids)
                    /\ SetInv(i, [inv[i] EXCEPT !.pc = "next", !.batch = ids,
                                    !.last = NoEventShape,
                                    !.claimed = {ids[j] : j \in 1..Len(ids)}])
               ELSE /\ UNCHANGED message_queue
                    /\ SetInv(i, [inv[i] EXCEPT !.pc = "done", !.raised = "dequeueBatch",
                                    !.response = CaughtResponse(outcome)])
    /\ UNCHANGED <<supabase, social_connections, voiceflow_mappings, voiceflow_api_keys,
                   envApiKey, sessions, conversations, messages, dead_letter_queue,
                   aiCalls, outbound, deliveries, replies>>

------------------------------------------------------------------------------
(* processMessage(userId, platform, senderId, recipientId, message, timestamp) *)

\* The queue row the invocation is processing.
Row(i) == message_queue[inv[i].msg]

\* A processMessage whose catch re-raises: the drain of the invocation is aborted
\* and the handler's own catch answers.
ProcessMessageRethrows(r, error) ==
    [r EXCEPT !.pc = "done", !.raised = "processMessage",
              !.response = CaughtResponse(error)]

\* The catch of processMessage, meta-webhook-handler.js:287-294: the error becomes
\* the returned result {success: false, error, transient}.
ProcessMessageCatch(r, error) ==
    [r EXCEPT !.pc = "return", !.result = Result(FALSE, FALSE, error)]

\* retryWithBackoff around an operation of the main try block: after a failure of
\* the attempt-th invocation it retries (from `again`) or re-raises into the catch.
RetryOrCatch(r, site, again, error) ==
    IF RetryAgain(site, r.attempt, error)
    THEN [r EXCEPT !.pc = again, !.attempt = @ + 1]
    ELSE ProcessMessageCatch(r, error)

\* The next claimed message is handed to processMessage; without a data-store
\* client processMessage raises at once (line 43).
StartProcessMessage(i) ==
    /\ inv[i].pc = "next" /\ inv[i].batch # <<>>
    /\ LET r == [ResetLocals(inv[i]) EXCEPT !.msg = Head(inv[i].batch),
                                            !.batch = Tail(@), !.attempt = 1]
       IN  SetInv(i, IF supabase
                     THEN [r EXCEPT !.pc = "getSocialConnection"]
                     ELSE ProcessMessageCatch(r, "Database connection is not available"))
    /\ UNCHANGED <<storeVars, aiCalls, outbound, faults, deliveries, replies>>

\* The rows the query of lines 47-51 returns.
ConnectionsOf(row) ==
    { c \in social_connections :
        /\ c.user_id = row.user_id
        /\ IF row.platform = "facebook"
           THEN c.fb_page_id = row.recipient_id
           ELSE c.ig_account_id = row.recipient_id }

\* getSocialConnection under retryWithBackoff, lines 46-63.
GetSocialConnection(i) ==
    /\ inv[i].pc = "getSocialConnection"
    /\ \E outcome \in Outcomes(StoreErrors) :
        /\ Charge(outcome)
        /\ SetInv(i,
             IF outcome # "ok"
             THEN RetryOrCatch(inv[i], "getSocialConnection", "getSocialConnection", outcome)
             ELSE IF ConnectionsOf(Row(i)) = {}
             THEN RetryOrCatch(inv[i], "getSocialConnection", "getSocialConnection",
                               "No connection found")
             ELSE [inv[i] EXCEPT !.pc = "getOrCreateSession",
                      !.accessToken = (CHOOSE c \in ConnectionsOf(Row(i)) : TRUE).access_token])
    /\ UNCHANGED <<storeVars, aiCalls, outbound, deliveries, replies>>

\* The ids of the sessions of a (tenant, contact, channel).
SessionsOf(row) ==
    { k \in 1..Len(sessions) :
        /\ sessions[k].user_id = row.user_id
        /\ sessions[k].participant_id = row.sender_id
        /\ sessions[k].platform = row.platform }

NewSession(id, row) ==
    [id |-> id, user_id |-> row.user_id, participant_id |-> row.sender_id,
     platform |-> row.platform, context |-> <<>>, extended |-> 0, conversation_id |-> 0]

Min(S) == CHOOSE x \in S : \A y \in S : x <= y

\* getOrCreateSession(userId, senderId, platform), line 66: the session of the key,
\* created with an empty context when there is none.
GetOrCreateSession(i) ==
    /\ inv[i].pc = "getOrCreateSession"
    /\ \E outcome \in Outcomes(StoreErrors) :
        /\ Charge(outcome)
        /\ IF outcome # "ok"
           THEN /\ SetInv(i, ProcessMessageCatch(inv[i], outcome))
                /\ UNCHANGED sessions
           ELSE IF SessionsOf(Row(i)) # {}
           THEN /\ SetInv(i, [inv[i] EXCEPT !.pc = "selectConversation", !.attempt = 1,
                                            !.sessionId = Min(SessionsOf(Row(i)))])
                /\ UNCHANGED sessions
           ELSE /\ sessions' = Append(sessions, NewSession(Len(sessions) + 1, Row(i)))
                /\ SetInv(i, [inv[i] EXCEPT !.pc = "selectConversation", !.attempt = 1,
                                            !.sessionId = Len(sessions) + 1])
    /\ UNCHANGED <<supabase, social_connections, voiceflow_mappings, voiceflow_api_keys,
                   envApiKey, message_queue, conversations, messages, dead_letter_queue,
                   aiCalls, outbound, deliveries, replies>>

\* A select that does not filter on the contact.
ConversationsOfAnyContact(row) ==
    { k \in 1..Len(conversations) :
        /\ conversations[k].user_id = row.user_id
        /\ conversations[k].platform = row.platform }

\* The ids of the conversations the select of lines 70-75 returns.
ConversationsOf(row) ==
    { k \in 1..Len(conversations) :
        /\ conversations[k].user_id = row.user_id
        /\ conversations[k].platform = row.platform
        /\ conversations[k].external_id = row.sender_id }

\* getOrCreateConversation, lines 70-77: the select.
SelectConversation(i) ==
    /\ inv[i].pc = "selectConversation"
    /\ \E outcome \in Outcomes(StoreErrors) :
        /\ Charge(outcome)
        /\ SetInv(i,
             IF outcome # "ok"
             THEN RetryOrCatch(inv[i], "getOrCreateConversation", "selectConversation", outcome)
             ELSE IF ConversationsOf(Row(i)) = {}
             THEN [inv[i] EXCEPT !.pc = "insertConversation"]
             ELSE [inv[i] EXCEPT !.pc = "updateConversation",
                                 !.convId = Min(ConversationsOf(Row(i)))])
    /\ UNCHANGED <<storeVars, aiCalls, outbound, deliveries, replies>>

\* An insert that is one atomic step with the read: it writes no row when the
\* contact has a conversation by now, and returns that conversation.
InsertConversationUpsert(i) ==
    /\ inv[i].pc = "insertConversation"
    /\ \E outcome \in Outcomes(StoreErrors) :
        /\ Charge(outcome)
        /\ IF outcome # "ok"
           THEN /\ SetInv(i, RetryOrCatch(inv[i], "getOrCreateConversation",
                                          "selectConversation", outcome))
                /\ UNCHANGED conversations
           ELSE IF ConversationsOf(Row(i)) # {}
           THEN /\ SetInv(i, [inv[i] EXCEPT !.pc = "linkSessionToConversation",
                                            !.convId = Min(ConversationsOf(Row(i)))])
                /\ UNCHANGED conversations
           ELSE /\ conversations' = Append(conversations,
                      [id |-> Len(conversations) + 1, user_id |-> Row(i).user_id,
                       platform |-> Row(i).platform, external_id |-> Row(i).sender_id,
                       participant_id |-> Row(i).sender_id,
                       last_message_at |-> Row(i).timestamp,
                       session_id |-> inv[i].sessionId])
                /\ SetInv(i, [inv[i] EXCEPT !.pc = "linkSessionToConversation",
                                            !.convId = Len(conversations) + 1])
    /\ UNCHANGED <<supabase, social_connections, voiceflow_mappings, voiceflow_api_keys,
                   envApiKey, message_queue, sessions, messages, dead_letter_queue,
                   aiCalls, outbound, deliveries, replies>>

\* getOrCreateConversation, lines 78-94: the insert after an empty select.
InsertConversation(i) ==
    /\ inv[i].pc = "insertConversation"
    /\ \E outcome \in Outcomes(StoreErrors) :
        /\ Charge(outcome)
        /\ IF outcome # "ok"
           THEN /\ SetInv(i, RetryOrCatch(inv[i], "getOrCreateConversation",
                                          "selectConversation", outcome))
                /\ UNCHANGED conversations
           ELSE /\ conversations' = Append(conversations,
                      [id |-> Len(conversations) + 1, user_id |-> Row(i).user_id,
                       platform |-> Row(i).platform, external_id |-> Row(i).sender_id,
                       participant_id |-> Row(i).sender_id,
                       last_message_at |-> Row(i).timestamp,
                       session_id |-> inv[i].sessionId])
                /\ SetInv(i, [inv[i] EXCEPT !.pc = "linkSessionToConversation",
                                            !.convId = Len(conversations) + 1])
    /\ UNCHANGED <<supabase, social_connections, voiceflow_mappings, voiceflow_api_keys,
                   envApiKey, message_queue, sessions, messages, dead_letter_queue,
                   aiCalls, outbound, deliveries, replies>>

\* getOrCreateConversation, lines 96-103: the update of an existing conversation;
\* its result is not inspected, a failed update goes unnoticed.
UpdateConversation(i) ==
    /\ inv[i].pc = "updateConversation"
    /\ \E outcome \in Outcomes(StoreErrors) :
        /\ Charge(outcome)
        /\ conversations' =
             IF outcome = "ok"
             THEN [conversations EXCEPT ![inv[i].convId] =
                      [@ EXCEPT !.last_message_at = Row(i).timestamp,
                                !.session_id = inv[i].sessionId]]
             ELSE conversations
        /\ SetInv(i, [inv[i] EXCEPT !.pc = "linkSessionToConversation"])
    /\ UNCHANGED <<supabase, social_connections, voiceflow_mappings, voiceflow_api_keys,
                   envApiKey, message_queue, sessions, messages, dead_letter_queue,
                   aiCalls, outbound, deliveries, replies>>

\* linkSessionToConversation(conversationId, session.id), line 115.
LinkSessionToConversation(i) ==
    /\ inv[i].pc = "linkSessionToConversation"
    /\ \E outcome \in Outcomes(StoreErrors) :
        /\ Charge(outcome)
        /\ IF outcome # "ok"
           THEN /\ SetInv(i, ProcessMessageCatch(inv[i], outcome))
                /\ UNCHANGED sessions
           ELSE /\ sessions' = [sessions EXCEPT ![inv[i].sessionId].conversation_id =
                                                   inv[i].convId]
                /\ SetInv(i, [inv[i] EXCEPT !.pc = "saveUserMessage", !.attempt = 1])
    /\ UNCHANGED <<supabase, social_connections, voiceflow_mappings, voiceflow_api_keys,
                   envApiKey, message_queue, conversations, messages, dead_letter_queue,
                   aiCalls, outbound, deliveries, replies>>

\* saveUserMessage under retryWithBackoff, lines 121-139.
SaveUserMessage(i) ==
    /\ inv[i].pc = "saveUserMessage"
    /\ \E outcome \in Outcomes(StoreErrors) :
        /\ Charge(outcome)
        /\ IF outcome # "ok"
           THEN /\ SetInv(i, RetryOrCatch(inv[i], "saveUserMessage", "saveUserMessage",
                                          outcome))
                /\ UNCHANGED messages
           ELSE /\ messages' = Append(messages,
                      [id |-> Len(messages) + 1, conversation_id |-> inv[i].convId,
                       content |-> Row(i).text, sender_type |-> "user",
                       external_id |-> Row(i).mid])
                /\ SetInv(i, [inv[i] EXCEPT !.pc = "updateContextUser",
                                            !.savedId = Len(messages) + 1])
    /\ UNCHANGED <<supabase, social_connections, voiceflow_mappings, voiceflow_api_keys,
                   envApiKey, message_queue, sessions, conversations, dead_letter_queue,
                   aiCalls, outbound, deliveries, replies>>

\* A context map is a sequence of <<key, value>> pairs with distinct keys.
HasKey(context, key) == \E k \in 1..Len(context) : context[k][1] = key

\* One key written into a context map: it overwrites the key or adds it.
SetKey(context, key, value) ==
    IF HasKey(context, key)
    THEN [k \in 1..Len(context) |->
             IF context[k][1] = key THEN <<key, value>> ELSE context[k]]
    ELSE Append(context, <<key, value>>)

\* A merge that replaces the context by the update.
MergeContextReplace(context, update) == update

\* updateSessionContext's merge: the keys of the update, in order, overwrite or
\* extend the context; the other keys stay.
RECURSIVE MergeContext(_, _)
MergeContext(context, update) ==
    IF update = <<>> THEN context
    ELSE MergeContext(SetKey(context, Head(update)[1], Head(update)[2]), Tail(update))

\* updateSessionContext(session.id, update) at the step `here` of the main try
\* block, going on to `next`.
UpdateSessionContext(i, here, update, next, nextAttempt) ==
    /\ inv[i].pc = here
    /\ \E outcome \in Outcomes(StoreErrors) :
        /\ Charge(outcome)
        /\ IF outcome # "ok"
           THEN /\ SetInv(i, ProcessMessageCatch(inv[i], outcome))
                /\ UNCHANGED sessions
           ELSE /\ sessions' = [sessions EXCEPT ![inv[i].sessionId].context =
                                                   MergeContext(@, update)]
                /\ SetInv(i, [inv[i] EXCEPT !.pc = next, !.attempt = nextAttempt])
    /\ UNCHANGED <<supabase, social_connections, voiceflow_mappings, voiceflow_api_keys,
                   envApiKey, message_queue, conversations, messages, dead_letter_queue,
                   aiCalls, outbound, deliveries, replies>>

\* Line 142: the session context gets the text of the user message.
UpdateContextUser(i) ==
    UpdateSessionContext(i, "updateContextUser",
                         << <<"lastUserMessage", Row(i).text>> >>,
                         "getVoiceflowMapping", 1)

\* getVoiceflowMapping under retryWithBackoff, lines 145-159.
GetVoiceflowMapping(i) ==
    /\ inv[i].pc = "getVoiceflowMapping"
    /\ \E outcome \in Outcomes(StoreErrors) :
        /\ Charge(outcome)
        /\ SetInv(i,
             IF outcome # "ok"
             THEN RetryOrCatch(inv[i], "getVoiceflowMapping", "getVoiceflowMapping", outcome)
             ELSE IF Row(i).user_id \notin voiceflow_mappings
             THEN RetryOrCatch(inv[i], "getVoiceflowMapping", "getVoiceflowMapping",
                               "No Voiceflow agent configured")
             ELSE [inv[i] EXCEPT !.pc = "getApiKey", !.attempt = 1])
    /\ UNCHANGED <<storeVars, aiCalls, outbound, deliveries, replies>>

\* getApiKey under retryWithBackoff, lines 162-175: the error of the query is not
\* inspected; without a row the key of the environment is used, and without any
\* key processMessage raises.
GetApiKey(i) ==
    /\ inv[i].pc = "getApiKey"
    /\ \E outcome \in Outcomes(StoreErrors) :
        /\ Charge(outcome)
        /\ SetInv(i,
             IF (outcome = "ok" /\ Row(i).user_id \in voiceflow_api_keys) \/ envApiKey
             THEN [inv[i] EXCEPT !.pc = "prepareVoiceflowContext"]
             ELSE ProcessMessageCatch(inv[i], "No Voiceflow API key found"))
    /\ UNCHANGED <<storeVars, aiCalls, outbound, deliveries, replies>>

\* prepareVoiceflowContext(session.id, baseContext), lines 178-186: the session is
\* read to build the request.
PrepareVoiceflowContext(i) ==
    /\ inv[i].pc = "prepareVoiceflowContext"
    /\ \E outcome \in Outcomes(StoreErrors) :
        /\ Charge(outcome)
        /\ SetInv(i,
             IF outcome # "ok"
             THEN ProcessMessageCatch(inv[i], outcome)
             ELSE [inv[i] EXCEPT !.pc = "callVoiceflow", !.attempt = 1])
    /\ UNCHANGED <<storeVars, aiCalls, outbound, deliveries, replies>>

\* One item of the array the AI backend replies with: its type, the message of a
\* text item, the entries of the payload of a set-variables item, and the
\* [[SET:key=value]] markers of the message, in order.
ReplyItem(type, message, payload, markers) ==
    [type |-> type, message |-> message, payload |-> payload, markers |-> markers]

\* A reply whose items carry no signal: a text item without markers, a
\* set-variables item without payload entries, a text item without message and
\* an item of another type.
ReplyPlain ==
    VoiceflowData(TRUE,
      << ReplyItem("text", "Hi", <<>>, <<>>),
         ReplyItem("set-variables", NULL, <<>>, <<>>),
         ReplyItem("text", "", <<>>, <<>>),
         ReplyItem("end", NULL, <<>>, <<>>) >>)

ReplyWithVars ==
    VoiceflowData(TRUE,
      << ReplyItem("set-variables", NULL, << <<"topic", "billing">> >>, <<>>),
         ReplyItem("text", "Hi [[SET:topic=sales]]", <<>>, << <<"topic", "sales">> >>) >>)

\* A reply whose marker comes before the variables, and that reports two keys.
ReplyMarkerFirst ==
    VoiceflowData(TRUE,
      << ReplyItem("text", "Hi [[SET:topic=sales]][[SET:lang=en]]", <<>>,
                   << <<"topic", "sales">>, <<"lang", "en">> >>),
         ReplyItem("set-variables", NULL, << <<"topic", "billing">> >>, <<>>) >>)

\* A reply body that is not an array.
ReplyNotArray == VoiceflowData(FALSE, <<>>)

AIReplies == {ReplyPlain, ReplyWithVars, ReplyMarkerFirst, ReplyNotArray}

\* The replies of the runs that do not study the reply itself.
BasicReplies == {ReplyPlain, ReplyWithVars}

\* The forEach of lines 306-319: the entries of the set-variables payloads and
\* the markers of the text items that have a message, in reply order, a later
\* occurrence of a key overwriting an earlier one.
RECURSIVE ExtractContext(_, _)
ExtractContext(reply, contextUpdates) ==
    IF reply = <<>> THEN contextUpdates
    ELSE LET item == Head(reply)
             withVars == IF item.type = "set-variables"
                         THEN MergeContext(contextUpdates, item.payload)
                         ELSE contextUpdates
             withMarkers == IF item.type = "text" /\ Truthy(item.message)
                            THEN MergeContext(withVars, item.markers)
                            ELSE withVars
         IN  ExtractContext(Tail(reply), withMarkers)

\* A variant that never looks at the markers of the text items.
ExtractContextVariablesOnly(voiceflowResponse) ==
    IF ~voiceflowResponse.isArray THEN <<>>
    ELSE ExtractContext([k \in 1..Len(voiceflowResponse.items) |->
                           [voiceflowResponse.items[k] EXCEPT !.markers = <<>>]], <<>>)

\* extractContextFromVoiceflowResponse, lines 302-321: nothing for a reply that
\* is not an array.
ExtractContextFromVoiceflowResponse(voiceflowResponse) ==
    IF ~voiceflowResponse.isArray THEN <<>>
    ELSE ExtractContext(voiceflowResponse.items, <<>>)

\* formatVoiceflowResponse(reply).text: the message of the first text item.
FormatVoiceflowResponse(reply) ==
    IF \E k \in 1..Len(reply.items) : reply.items[k].type = "text"
    THEN reply.items[Min({k \in 1..Len(reply.items) : reply.items[k].type = "text"})].message
    ELSE ""

\* A request that names the channel account as the participant.
VoiceflowRequestToRecipient(i) ==
    [userId |-> Row(i).user_id, text |-> Row(i).text,
     messageId |-> inv[i].savedId, participantId |-> Row(i).recipient_id,
     platform |-> Row(i).platform, conversationId |-> inv[i].convId]

\* The request POSTed to the AI backend, lines 178-201: the text of the message
\* and the base context over the variables of the session.
VoiceflowRequest(i) ==
    [userId |-> Row(i).user_id, text |-> Row(i).text,
     messageId |-> inv[i].savedId, participantId |-> Row(i).sender_id,
     platform |-> Row(i).platform, conversationId |-> inv[i].convId]

\* The error thrown at line 224, after the dead-letter write.
AIFailureMessage ==
    "Failed to process message with AI assistant after multiple attempts"

\* A catch of the AI call that skips the dead-letter recorder.
VoiceflowCatchNoDeadLetter(r, error) ==
    ProcessMessageCatch(r, AIFailureMessage)

\* A catch of the AI call that goes on with the assistant message.
VoiceflowCatchGoOn(r, error) ==
    [r EXCEPT !.pc = "saveAssistantMessage", !.attempt = 1, !.vfError = error]

\* The catch of the AI call, lines 217-225: the failure goes to the dead-letter
\* recorder.
VoiceflowCatch(r, error) ==
    [r EXCEPT !.pc = "saveToDeadLetterQueue", !.vfError = error]

\* A continuation that goes straight to the assistant message.
AfterVoiceflowNoExtend(reply) == "saveAssistantMessage"

\* Lines 211-216, what follows a reply inside the try of the AI call: the
\* context update when the reply reported something, then the session extension.
AfterVoiceflow(reply) ==
    IF ExtractContextFromVoiceflowResponse(reply) = <<>>
    THEN "extendSession" ELSE "updateContextAI"

\* callVoiceflow under retryWithBackoff, lines 189-210.
CallVoiceflow(i) ==
    /\ inv[i].pc = "callVoiceflow"
    /\ \E outcome \in Outcomes(HttpErrors) :
        /\ Charge(outcome)
        /\ aiCalls' = Append(aiCalls, VoiceflowRequest(i))
        /\ IF outcome = "ok"
           THEN \E reply \in replies :
                  SetInv(i, [inv[i] EXCEPT !.reply = reply, !.aiOk = TRUE,
                                           !.pc = AfterVoiceflow(reply)])
           ELSE SetInv(i, IF RetryAgain("callVoiceflow", inv[i].attempt, outcome)
                          THEN [inv[i] EXCEPT !.attempt = @ + 1]
                          ELSE VoiceflowCatch([inv[i] EXCEPT !.aiFailed = TRUE], outcome))
    /\ UNCHANGED <<storeVars, outbound, deliveries, replies>>

\* Lines 212-215: the context updates of the reply are merged into the session; a
\* failure is caught by the catch of the AI call.
UpdateContextAI(i) ==
    /\ inv[i].pc = "updateContextAI"
    /\ \E outcome \in Outcomes(StoreErrors) :
        /\ Charge(outcome)
        /\ IF outcome # "ok"
           THEN /\ SetInv(i, VoiceflowCatch(inv[i], outcome))
                /\ UNCHANGED sessions
           ELSE /\ sessions' = [sessions EXCEPT ![inv[i].sessionId].context =
                                   MergeContext(@, ExtractContextFromVoiceflowResponse(inv[i].reply))]
                /\ SetInv(i, [inv[i] EXCEPT !.pc = "extendSession"])
    /\ UNCHANGED <<supabase, social_connections, voiceflow_mappings, voiceflow_api_keys,
                   envApiKey, message_queue, conversations, messages, dead_letter_queue,
                   aiCalls, outbound, deliveries, replies>>

\* extendSession(session.id), line 216; a failure is caught by the catch of the
\* AI call.
ExtendSession(i) ==
    /\ inv[i].pc = "extendSession"
    /\ \E outcome \in Outcomes(StoreErrors) :
        /\ Charge(outcome)
        /\ IF outcome # "ok"
           THEN /\ SetInv(i, VoiceflowCatch([inv[i] EXCEPT !.extendInvoked = TRUE], outcome))
                /\ UNCHANGED sessions
           ELSE /\ sessions' = [sessions EXCEPT ![inv[i].sessionId].extended = @ + 1]
                /\ SetInv(i, [inv[i] EXCEPT !.pc = "saveAssistantMessage", !.attempt = 1,
                                           !.extendInvoked = TRUE])
    /\ UNCHANGED <<supabase, social_connections, voiceflow_mappings, voiceflow_api_keys,
                   envApiKey, message_queue, conversations, messages, dead_letter_queue,
                   aiCalls, outbound, deliveries, replies>>

\* saveToDeadLetterQueue(userId, text, error, snapshot), lines 218-224, then the
\* throw of line 224, caught at line 287. When the data store rejects the insert
\* no record is written, and the recorder either raises the data-store error or
\* logs it and returns.
SaveToDeadLetterQueue(i) ==
    /\ inv[i].pc = "saveToDeadLetterQueue"
    /\ \E outcome \in Outcomes(StoreErrors) :
        /\ Charge(outcome)
        /\ IF outcome # "ok"
           THEN /\ \E error \in {outcome, AIFailureMessage} :
                      SetInv(i, ProcessMessageCatch([inv[i] EXCEPT !.dlqError = outcome],
                                                    error))
                /\ UNCHANGED dead_letter_queue
           ELSE /\ dead_letter_queue' = Append(dead_letter_queue,
                      [user_id |-> Row(i).user_id, message |-> Row(i).text,
                       error |-> inv[i].vfError, platform |-> Row(i).platform,
                       conversationId |-> inv[i].convId, messageId |-> inv[i].savedId,
                       timestamp |-> Row(i).timestamp, sessionId |-> inv[i].sessionId])
                /\ SetInv(i, ProcessMessageCatch(inv[i],
                                AIFailureMessage))
    /\ UNCHANGED <<supabase, social_connections, voiceflow_mappings, voiceflow_api_keys,
                   envApiKey, message_queue, sessions, conversations, messages,
                   aiCalls, outbound, deliveries, replies>>

\* saveAssistantMessage under retryWithBackoff, lines 228-242.
SaveAssistantMessage(i) ==
    /\ inv[i].pc = "saveAssistantMessage"
    /\ \E outcome \in Outcomes(StoreErrors) :
        /\ Charge(outcome)
        /\ IF outcome # "ok"
           THEN /\ SetInv(i, RetryOrCatch(inv[i], "saveAssistantMessage",
                                          "saveAssistantMessage", outcome))
                /\ UNCHANGED messages
           ELSE /\ messages' = Append(messages,
                      [id |-> Len(messages) + 1, conversation_id |-> inv[i].convId,
                       content |-> FormatVoiceflowResponse(inv[i].reply),
                       sender_type |-> "assistant", external_id |-> NULL])
                /\ SetInv(i, [inv[i] EXCEPT !.pc = "updateContextAssistant",
                                            !.assistantId = Len(messages) + 1])
    /\ UNCHANGED <<supabase, social_connections, voiceflow_mappings, voiceflow_api_keys,
                   envApiKey, message_queue, sessions, conversations, dead_letter_queue,
                   aiCalls, outbound, deliveries, replies>>

\* Line 243: the session context gets the text of the reply.
UpdateContextAssistant(i) ==
    UpdateSessionContext(i, "updateContextAssistant",
                         << <<"lastAssistantMessage", FormatVoiceflowResponse(inv[i].reply)>> >>,
                         "sendResponse", 1)

\* A delivery failure reported as a failure of the message.
SendFailureResultFailed == Result(FALSE, FALSE, "Failed to deliver")

\* Lines 275-283: the result when the send failed after its retries, a success
\* with a warning.
SendFailureResult == Result(TRUE, TRUE, NULL)

\* sendResponse under retryWithBackoff, lines 246-285: the POST to the send API of
\* the channel. The entry of `outbound` also notes which queue row the POST was
\* made for and how the platform answered it.
SendResponse(i) ==
    /\ inv[i].pc = "sendResponse"
    /\ \E outcome \in Outcomes(HttpErrors) :
        /\ Charge(outcome)
        /\ outbound' = Append(outbound,
              [endpoint |-> IF Row(i).platform = "facebook" THEN "me"
                            ELSE Row(i).recipient_id,
               recipient |-> Row(i).sender_id,
               text |-> FormatVoiceflowResponse(inv[i].reply),
               access_token |-> inv[i].accessToken,
               queueId |-> inv[i].msg, status |-> outcome])
        /\ SetInv(i,
             IF outcome = "ok"
             THEN [inv[i] EXCEPT !.pc = "return", !.result = Result(TRUE, FALSE, NULL)]
             ELSE IF RetryAgain("sendResponse", inv[i].attempt, outcome)
             THEN [inv[i] EXCEPT !.attempt = @ + 1]
             ELSE [inv[i] EXCEPT !.pc = "return", !.result = SendFailureResult])
    /\ UNCHANGED <<storeVars, aiCalls, deliveries, replies>>

------------------------------------------------------------------------------
(* processPendingMessages: the results of the batch *)

\* A marking that puts a failed message back among the pending ones.
TerminalStatusRequeue(result) == IF result.success THEN "completed" ELSE "pending"

\* The status processPendingMessages gives a row once processMessage has
\* returned: completed for a success, failed otherwise.
TerminalStatus(result) == IF result.success THEN "completed" ELSE "failed"

\* processMessage has returned: the row is marked completed or failed and the
\* result is kept.
RecordResult(i) ==
    /\ inv[i].pc = "return"
    /\ message_queue' = [message_queue EXCEPT ![inv[i].msg] =
          [@ EXCEPT !.status = TerminalStatus(inv[i].result),
                    !.attempts = @ + 1]]
    /\ SetInv(i, [inv[i] EXCEPT !.pc = "next", !.processed = @ + 1,
                    !.results = Append(@, [id |-> inv[i].msg, result |-> inv[i].result])])
    /\ UNCHANGED <<supabase, social_connections, voiceflow_mappings, voiceflow_api_keys,
                   envApiKey, sessions, conversations, messages, dead_letter_queue,
                   aiCalls, outbound, faults, deliveries, replies>>

\* Lines 444-453: the batch is processed, the handler answers 200.
Respond(i) ==
    /\ inv[i].pc = "next" /\ inv[i].batch = <<>>
    /\ SetInv(i, [inv[i] EXCEPT !.pc = "done",
                    !.response = HandlerResponse(200, "success", inv[i].queued,
                                                 inv[i].processed)])
    /\ UNCHANGED <<storeVars, aiCalls, outbound, faults, deliveries, replies>>

\* The configurations of a tenant: everything in place, one thing missing, or the
\* credential of the connection expired.
Connection ==
    [user_id |-> "T1", fb_page_id |-> "P1", ig_account_id |-> "P1",
     access_token |-> "token-T1", token_expiry |-> "future"]

\* A connection whose credential has expired.
ExpiredConnection == [Connection EXCEPT !.token_expiry = "past"]

Scenario(client, connections, mappings, keys, envKey) ==
    [client |-> client, connections |-> connections, mappings |-> mappings,
     keys |-> keys, envKey |-> envKey]

Scenarios ==
    { Scenario(TRUE, {Connection}, {"T1"}, {"T1"}, FALSE),
      Scenario(FALSE, {Connection}, {"T1"}, {"T1"}, FALSE),
      Scenario(TRUE, {}, {"T1"}, {"T1"}, FALSE),
      Scenario(TRUE, {Connection}, {}, {"T1"}, FALSE),
      Scenario(TRUE, {Connection}, {"T1"}, {}, TRUE),
      Scenario(TRUE, {Connection}, {"T1"}, {}, FALSE),
      Scenario(TRUE, {ExpiredConnection}, {"T1"}, {"T1"}, FALSE) }

\* The state when `n` invocations are about to start, with `f` failures to inject,
\* the workload `d` and the replies `a` of the AI backend.
PipeInit(n, f, d, a) ==
    /\ \E s \in Scenarios :
          /\ supabase = s.client
          /\ social_connections = s.connections
          /\ voiceflow_mappings = s.mappings
          /\ voiceflow_api_keys = s.keys
          /\ envApiKey = s.envKey
    /\ message_queue = <<>>
    /\ sessions = <<>>
    /\ conversations = <<>>
    /\ messages = <<>>
    /\ dead_letter_queue = <<>>
    /\ aiCalls = <<>>
    /\ outbound = <<>>
    /\ inv = [i \in 1..n |-> IdleInvocation]
    /\ faults = f
    /\ deliveries = d
    /\ replies = a

\* The pipeline is not under study.
PipeIdle ==
    /\ supabase = FALSE
    /\ social_connections = {}
    /\ voiceflow_mappings = {}
    /\ voiceflow_api_keys = {}
    /\ envApiKey = FALSE
    /\ message_queue = <<>>
    /\ sessions = <<>>
    /\ conversations = <<>>
    /\ messages = <<>>
    /\ dead_letter_queue = <<>>
    /\ aiCalls = <<>>
    /\ outbound = <<>>
    /\ inv = <<>>
    /\ faults = 0
    /\ deliveries = "none"
    /\ replies = {}

------------------------------------------------------------------------------
(* The App component of the client, src/src/App.tsx: authentication at startup *)

VARIABLES
    app     \* the state of the App component, its ref and the locals of its effects

appVars == <<app>>

\* The sign-in events the auth client emits.
AuthEvents == {"SIGNED_IN", "TOKEN_REFRESHED", "SIGNED_OUT"}

\* What supabase.auth.getSession() answers: a session, none, or an error.
SessionOutcomes == {"active", "none", "error"}

\* The component after its first render, App.tsx:24-42: the useState values,
\* the ref initialAuthComplete, and the effects about to run. `mounted` and
\* `listenerMounted` are the locals of the two effects, `listenerRuns` counts the
\* runs of the listener effect, pc is the position of initializeAuth, `session`
\* its local, `fetching` the listener callback awaiting getCurrentUser.
AppRendered ==
    [user |-> NULL, loading |-> TRUE, error |-> NULL, authChecked |-> FALSE,
     authStateChangeCalled |-> FALSE, initialAuthComplete |-> FALSE,
     mounted |-> TRUE, listenerMounted |-> FALSE, subscribed |-> FALSE,
     listenerRuns |-> 0, pc |-> "render", retryCount |-> 0, delay |-> 0,
     session |-> NULL, attempts |-> 0, emitted |-> 0, lastEvent |-> NULL,
     fetching |-> FALSE]

\* The component is not under study.
AppIdle == app = [AppRendered EXCEPT !.pc = "none", !.mounted = FALSE]

AppInit == app = AppRendered

\* What the component renders, App.tsx:212-289: the spinner, the error screen, or
\* the routes (those of a visitor redirect to /auth).
Render(a) ==
    IF a.loading /\ ~a.authChecked THEN "spinner"
    ELSE IF a.error # NULL THEN "error"
    ELSE IF a.user = NULL THEN "routes:auth"
    ELSE "routes:app"

\* The finally block of initializeAuth, App.tsx:193-198.
Finally(a) ==
    IF a.mounted THEN [a EXCEPT !.loading = FALSE, !.authChecked = TRUE] ELSE a

\* A retry test that allows one retry more.
RetryScheduledOneMore(a) == a.mounted /\ a.retryCount <= maxRetries

\* App.tsx:180, the test of the catch block: a retry is scheduled.
RetryScheduled(a) == a.mounted /\ a.retryCount < maxRetries

InitFailureMessage ==
    "Failed to initialize application after multiple attempts. Please refresh the page."

\* The catch block of initializeAuth, App.tsx:176-192, followed by the finally
\* block: a retry is scheduled with setTimeout, or the error is shown.
Failed(a) ==
    IF RetryScheduled(a)
    THEN Finally([a EXCEPT !.retryCount = @ + 1,
                           !.delay = IF 1000 * (a.retryCount + 1) < 5000
                                     THEN 1000 * (a.retryCount + 1) ELSE 5000,
                           !.pc = "timer"])
    ELSE IF a.mounted
    THEN Finally([a EXCEPT !.error = InitFailureMessage,
                           !.initialAuthComplete = TRUE, !.pc = "ended"])
    ELSE Finally([a EXCEPT !.pc = "ended"])

\* initializeAuth up to its first await, App.tsx:96-111.
AttemptStart(a) ==
    IF ~a.mounted \/ a.initialAuthComplete
    THEN [a EXCEPT !.pc = "ended"]
    ELSE [a EXCEPT !.loading = TRUE, !.error = NULL, !.session = NULL,
                   !.attempts = @ + 1, !.pc = "checkSupabaseAuth"]

\* The first run of the listener effect, App.tsx:44-79: the flag is set and the
\* callback subscribed.
ListenerEffect ==
    /\ app.pc = "render" /\ app.listenerRuns = 0
    /\ app' = [app EXCEPT !.authStateChangeCalled = TRUE, !.subscribed = TRUE,
                          !.listenerMounted = TRUE, !.listenerRuns = 1]

\* The initialization effect, App.tsx:89-201, which runs after the listener
\* effect: the first call of initializeAuth.
InitEffect ==
    /\ app.pc = "render" /\ app.listenerRuns = 1
    /\ app' = AttemptStart(app)

\* The re-render that follows setAuthStateChangeCalled(true): the dependency of
\* the listener effect has changed, so its cleanup runs (App.tsx:80-84) and the
\* effect runs again, now finding the flag set and subscribing nothing (47, 86).
ListenerEffectRerun ==
    /\ app.pc # "render" /\ app.listenerRuns = 1 /\ app.mounted
    /\ app' = [app EXCEPT !.listenerMounted = FALSE, !.subscribed = FALSE,
                          !.listenerRuns = 2]

\* The component unmounts: the cleanups of both effects run, App.tsx:80-84 and
\* 203-205.
Unmount ==
    /\ app.pc # "render" /\ app.mounted
    /\ app' = [app EXCEPT !.mounted = FALSE, !.listenerMounted = FALSE,
                          !.subscribed = FALSE]

\* setTimeout(initializeAuth, delay) fires, App.tsx:185.
TimerFires ==
    /\ app.pc = "timer"
    /\ app' = AttemptStart(app)

\* checkSupabaseAuth(), App.tsx:111-118 and lib/supabase.ts:33-45: true only
\* when getSession answers with a session.
CheckSupabaseAuth ==
    /\ app.pc = "checkSupabaseAuth"
    /\ \E outcome \in SessionOutcomes :
          app' = IF outcome = "active"
                 THEN [app EXCEPT !.pc = "checkSupabaseDB"]
                 ELSE Failed(app)

\* checkSupabaseDB(), App.tsx:121-126: its verdict is logged only.
CheckSupabaseDB ==
    /\ app.pc = "checkSupabaseDB"
    /\ \E isDBWorking \in BOOLEAN : app' = [app EXCEPT !.pc = "getSession"]

\* supabase.auth.getSession(), App.tsx:130-147.
GetSession ==
    /\ app.pc = "getSession"
    /\ \E outcome \in SessionOutcomes :
          app' = IF outcome = "error" THEN Failed([app EXCEPT !.session = NULL])
                 ELSE IF outcome = "none"
                 THEN Finally(IF app.mounted
                              THEN [app EXCEPT !.session = "none", !.user = NULL,
                                               !.loading = FALSE, !.authChecked = TRUE,
                                               !.initialAuthComplete = TRUE,
                                               !.pc = "ended"]
                              ELSE [app EXCEPT !.session = "none", !.pc = "ended"])
                 ELSE [app EXCEPT !.session = "active", !.pc = "getCurrentUser"]

\* What getCurrentUser() resolves to, lib/auth.ts:4-32: the user of the session,
\* or null; it catches whatever is raised.
CurrentUsers == {"user", NULL}

\* getCurrentUser() of initializeAuth, App.tsx:153-160.
GetCurrentUser ==
    /\ app.pc = "getCurrentUser"
    /\ \E currentUser \in CurrentUsers :
          app' = Finally(IF app.mounted
                         THEN [app EXCEPT !.user = currentUser,
                                          !.initialAuthComplete = TRUE, !.pc = "ended"]
                         ELSE [app EXCEPT !.pc = "ended"])

\* App.tsx:56-59: the callback returns at once.
ListenerSkips(a) == ~a.listenerMounted \/ ~a.initialAuthComplete

\* The auth client emits an event; the callback of App.tsx:52-78 runs when it is
\* subscribed, up to its await.
AuthStateChange ==
    /\ app.pc # "render" /\ app.emitted < MaxAuthEvents /\ ~app.fetching
    /\ \E event \in AuthEvents :
          LET a == [app EXCEPT !.emitted = @ + 1, !.lastEvent = event]
          IN  app' = IF ~a.subscribed \/ ListenerSkips(a) THEN a
                     ELSE IF event = "SIGNED_OUT"
                     THEN [a EXCEPT !.user = NULL]
                     ELSE [a EXCEPT !.fetching = TRUE]

\* getCurrentUser() of the callback resolves, App.tsx:64-68.
ListenerUserFetched ==
    /\ app.fetching
    /\ \E currentUser \in CurrentUsers :
          app' = IF app.listenerMounted
                 THEN [app EXCEPT !.fetching = FALSE, !.user = currentUser]
                 ELSE [app EXCEPT !.fetching = FALSE]

------------------------------------------------------------------------------
(* Specifications *)

vars == <<verifyVars, retryVars, pipeVars, appVars>>

\* The verification endpoint answering one handshake.
VerifyNext == VerificationHandler /\ UNCHANGED <<retryVars, pipeVars, appVars>>

VerifySpecInit == VerifyInit /\ RetryIdle /\ PipeIdle /\ AppIdle

SpecVerify == VerifySpecInit /\ [][VerifyNext]_vars

\* The retry executor running one scripted operation.
RetryNext ==
    \/ RetryOperationSucceeds /\ UNCHANGED <<verifyVars, pipeVars, appVars>>
    \/ RetryOperationFailsAndRetries /\ UNCHANGED <<verifyVars, pipeVars, appVars>>
    \/ RetryOperationFailsAndRaises /\ UNCHANGED <<verifyVars, pipeVars, appVars>>

RetrySpecInit == RetryInit /\ VerifyIdle /\ PipeIdle /\ AppIdle

\* The ingestion function handling the deliveries of the platform.
Others == UNCHANGED <<verifyVars, retryVars, appVars>>

Next ==
    \/ (\E i \in DOMAIN inv : ReceivePost(i)) /\ Others
    \/ (\E i \in DOMAIN inv : HandlerPrefix(i)) /\ Others
    \/ (\E i \in DOMAIN inv : EnqueueEvent(i)) /\ Others
    \/ (\E i \in DOMAIN inv : DequeueBatch(i)) /\ Others
    \/ (\E i \in DOMAIN inv : StartProcessMessage(i)) /\ Others
    \/ (\E i \in DOMAIN inv : GetSocialConnection(i)) /\ Others
    \/ (\E i \in DOMAIN inv : GetOrCreateSession(i)) /\ Others
    \/ (\E i \in DOMAIN inv : SelectConversation(i)) /\ Others
    \/ (\E i \in DOMAIN inv : InsertConversation(i)) /\ Others
    \/ (\E i \in DOMAIN inv : UpdateConversation(i)) /\ Others
    \/ (\E i \in DOMAIN inv : LinkSessionToConversation(i)) /\ Others
    \/ (\E i \in DOMAIN inv : SaveUserMessage(i)) /\ Others
    \/ (\E i \in DOMAIN inv : UpdateContextUser(i)) /\ Others
    \/ (\E i \in DOMAIN inv : GetVoiceflowMapping(i)) /\ Others
    \/ (\E i \in DOMAIN inv : GetApiKey(i)) /\ Others
    \/ (\E i \in DOMAIN inv : PrepareVoiceflowContext(i)) /\ Others
    \/ (\E i \in DOMAIN inv : CallVoiceflow(i)) /\ Others
    \/ (\E i \in DOMAIN inv : UpdateContextAI(i)) /\ Others
    \/ (\E i \in DOMAIN inv : ExtendSession(i)) /\ Others
    \/ (\E i \in DOMAIN inv : SaveToDeadLetterQueue(i)) /\ Others
    \/ (\E i \in DOMAIN inv : SaveAssistantMessage(i)) /\ Others
    \/ (\E i \in DOMAIN inv : UpdateContextAssistant(i)) /\ Others
    \/ (\E i \in DOMAIN inv : SendResponse(i)) /\ Others
    \/ (\E i \in DOMAIN inv : RecordResult(i)) /\ Others
    \/ (\E i \in DOMAIN inv : Respond(i)) /\ Others

\* One invocation running alone, with up to MaxFaults failures.
Init == PipeInit(1, MaxFaults, "sequential", BasicReplies) /\ VerifyIdle /\ RetryIdle /\ AppIdle

Spec == Init /\ [][Next]_vars

\* The same invocation under weak fairness: every external call returns and the
\* handler takes its next step whenever it has one.
SpecFair == Init /\ [][Next]_vars /\ WF_vars(Next)

\* Concurrent invocations, one text message each, with up to MaxConcurrentFaults
\* failures.
ConcurrentInit ==
    PipeInit(MaxInvocations, MaxConcurrentFaults, "concurrent", {ReplyWithVars})
        /\ VerifyIdle /\ RetryIdle /\ AppIdle

SpecConcurrent == ConcurrentInit /\ [][Next]_vars

\* One invocation handling a payload of two text messages, with every reply of
\* the AI backend and up to MaxBatchFaults failures.
BatchInit == PipeInit(1, MaxBatchFaults, "batch", AIReplies) /\ VerifyIdle /\ RetryIdle /\ AppIdle

SpecBatch == BatchInit /\ [][Next]_vars

\* One invocation handling a payload of three text messages, with up to
\* MaxDrainFaults failures.
DrainInit == PipeInit(1, MaxDrainFaults, "drain", BasicReplies) /\ VerifyIdle /\ RetryIdle /\ AppIdle

SpecDrain == DrainInit /\ [][Next]_vars

SpecRetry == RetrySpecInit /\ [][RetryNext]_vars

\* The App component from its first render on.
AppOthers == UNCHANGED <<verifyVars, retryVars, pipeVars>>

\* The steps of initializeAuth and of the timer that re-runs it.
InitializationStep ==
    \/ InitEffect
    \/ TimerFires
    \/ CheckSupabaseAuth
    \/ CheckSupabaseDB
    \/ GetSession
    \/ GetCurrentUser

AppNext ==
    \/ ListenerEffect /\ AppOthers
    \/ InitEffect /\ AppOthers
    \/ ListenerEffectRerun /\ AppOthers
    \/ Unmount /\ AppOthers
    \/ TimerFires /\ AppOthers
    \/ CheckSupabaseAuth /\ AppOthers
    \/ CheckSupabaseDB /\ AppOthers
    \/ GetSession /\ AppOthers
    \/ GetCurrentUser /\ AppOthers
    \/ AuthStateChange /\ AppOthers
    \/ ListenerUserFetched /\ AppOthers

AppSpecInit == AppInit /\ VerifyIdle /\ RetryIdle /\ PipeIdle

SpecApp == AppSpecInit /\ [][AppNext]_vars

\* The same under weak fairness of the effects, the awaited calls and the timer:
\* each of them returns or fires.
SpecAppFair ==
    /\ AppSpecInit /\ [][AppNext]_vars
    /\ WF_vars(ListenerEffect /\ AppOthers)
    /\ WF_vars(InitializationStep /\ AppOthers)

------------------------------------------------------------------------------
(* Claims about the retry executor *)

\* C9: with maxRetries = 3, an operation that fails twice with a transient error and
\* then succeeds is invoked exactly 3 times and its value is returned; an operation
\* that always fails with an error its shouldRetry rejects is invoked exactly once
\* and that error is re-raised.
C9_RetryInvocationCounts ==
    rState # "running" =>
        /\ ( /\ MaxRetriesOf(rSite) = 3
             /\ rScript[1] \in {"timeout", "network"}
             /\ rScript[2] \in {"timeout", "network"}
             /\ rScript[3] = "ok" )
           => (rCalls = 3 /\ rState = "returned" /\ rResult = "ok")
        /\ (\A i \in 1..MaxOperationCalls : rScript[i] \in {"http4xx", "validation"})
           => (rCalls = 1 /\ rState = "raised" /\ rResult = rScript[1])

\* C9 witness: the AI call has failed twice with a timeout, succeeded on the third
\* invocation and returned.
C9_Witness ==
    /\ rSite = "callVoiceflow"
    /\ rScript[1] = "timeout" /\ rScript[2] = "timeout" /\ rScript[3] = "ok"
    /\ rState = "returned" /\ rCalls = 3
    /\ rDelays = <<1000, 2000>>

------------------------------------------------------------------------------
(* Claims about the ingestion handler *)

Max(S) == CHOOSE x \in S : \A y \in S : x >= y

\* The invocation has answered its POST.
Answered(i) == inv[i].pc = "done"

\* C1: the handler answers a POST that passed the signature, path and payload
\* checks with a 2xx only if no event of it failed to be persisted in the queue: a
\* data-store error of queueMessage is never answered 2xx.
C1_AcknowledgedOnlyWhenQueued ==
    \A i \in DOMAIN inv :
        (Answered(i) /\ inv[i].response.statusCode \in 200..299)
            => inv[i].raised # "queueMessage"

\* C2: a POST whose signature validateWebhook reports invalid, with a signing
\* secret configured, is answered 401 by the next step of its invocation, which
\* parses neither path nor body, leaves the data store, the AI backend and the
\* send API untouched, and is the last step of that invocation.
C2_SignatureMismatchRejected ==
    [][\A i \in DOMAIN inv :
          /\ ( /\ inv[i].pc = "received"
               /\ inv[i].event.secret /\ ~inv[i].event.signatureValid
               /\ inv'[i].pc # inv[i].pc )
             => /\ inv'[i].pc = "done"
                /\ inv'[i].response.statusCode = 401
                /\ ~inv'[i].parsed
                /\ inv'[i].userId = NULL /\ inv'[i].platform = NULL
                /\ inv'[i].queued = 0 /\ inv'[i].enqueued = {}
                /\ inv'[i].claimed = {} /\ inv'[i].processed = 0
                /\ UNCHANGED <<storeVars, aiCalls, outbound>>
          /\ inv[i].pc = "done" => inv'[i] = inv[i]]_vars

\* C2 witness: a POST has been answered 401 and nothing was parsed or queued.
C2_Witness ==
    \E i \in DOMAIN inv :
        /\ Answered(i) /\ inv[i].response.statusCode = 401
        /\ ~inv[i].parsed /\ message_queue = <<>>

------------------------------------------------------------------------------
(* Claims about processMessage *)

\* processMessage has returned for the message the invocation is on.
Returned(i) == inv[i].pc = "return"

\* The dead-letter records of the message the invocation is on.
DeadLettersOf(i) ==
    { k \in 1..Len(dead_letter_queue) :
         /\ inv[i].savedId # 0
         /\ dead_letter_queue[k].messageId = inv[i].savedId }

\* The POSTs to the send API made for the message the invocation is on.
SendsOf(i) == { k \in 1..Len(outbound) : outbound[k].queueId = inv[i].msg }

\* The assistant rows inserted after the user row of the message.
AssistantRowsOf(i) ==
    { k \in (inv[i].savedId + 1)..Len(messages) : messages[k].sender_type = "assistant" }

\* The dead-letter record carries the text, the error and the context snapshot.
DeadLetterOf(i, rec) ==
    /\ rec.user_id = Row(i).user_id
    /\ rec.message = Row(i).text
    /\ rec.error = inv[i].vfError
    /\ rec.platform = Row(i).platform
    /\ rec.conversationId = inv[i].convId
    /\ rec.messageId = inv[i].savedId
    /\ rec.timestamp = Row(i).timestamp
    /\ rec.sessionId = inv[i].sessionId

\* After a failed AI call: no assistant row, no send, a failure result.
AIFailureIsTerminal(i) ==
    /\ AssistantRowsOf(i) = {}
    /\ inv[i].assistantId = 0
    /\ SendsOf(i) = {}
    /\ ~inv[i].result.success

\* C3 as stated: when the AI call has failed after its retries, exactly one
\* dead-letter record exists for the message, with its text, the error and the
\* snapshot; no assistant row, no send, and the result is a failure.
C3_AIFailureDeadLetteredAsStated ==
    \A i \in DOMAIN inv :
        (Returned(i) /\ inv[i].aiFailed) =>
            /\ Cardinality(DeadLettersOf(i)) = 1
            /\ \A k \in DeadLettersOf(i) : DeadLetterOf(i, dead_letter_queue[k])
            /\ AIFailureIsTerminal(i)

\* C3: when the AI call has failed after its retries, no assistant row is
\* inserted, no send is attempted and the result is a failure; exactly one
\* dead-letter record (text, error, snapshot) exists for the message, unless the
\* dead-letter write itself failed with a data-store error, and then none exists.
C3_AIFailureDeadLettered ==
    \A i \in DOMAIN inv :
        (Returned(i) /\ inv[i].aiFailed) =>
            /\ AIFailureIsTerminal(i)
            /\ IF inv[i].dlqError = NULL
               THEN /\ Cardinality(DeadLettersOf(i)) = 1
                    /\ \A k \in DeadLettersOf(i) : DeadLetterOf(i, dead_letter_queue[k])
                    /\ inv[i].result.error = AIFailureMessage
               ELSE /\ DeadLettersOf(i) = {}
                    /\ inv[i].result.error \in StoreErrors \cup {AIFailureMessage}

\* C3 witness: the AI call has timed out three times and the message is
\* dead-lettered with its text "Hello".
C3_Witness ==
    \E i \in DOMAIN inv :
        /\ Returned(i) /\ inv[i].aiFailed /\ inv[i].vfError = "timeout"
        /\ Len(aiCalls) = 3
        /\ Len(dead_letter_queue) = 1 /\ dead_letter_queue[1].message = "Hello"
        /\ ~inv[i].result.success

\* The last POST to the send API for the message failed and processMessage has
\* returned: the send has failed after its retries.
SendExhausted(i) ==
    /\ Returned(i)
    /\ SendsOf(i) # {}
    /\ outbound[Max(SendsOf(i))].status # "ok"

\* C4: when the send has failed after its retries, processMessage returns success
\* with a warning, the assistant row holding the reply is persisted, and no
\* dead-letter record exists for the message.
C4_SendFailureIsWarning ==
    \A i \in DOMAIN inv :
        SendExhausted(i) =>
            /\ inv[i].result.success /\ inv[i].result.warning
            /\ inv[i].assistantId \in 1..Len(messages)
            /\ messages[inv[i].assistantId].sender_type = "assistant"
            /\ messages[inv[i].assistantId].content = FormatVoiceflowResponse(inv[i].reply)
            /\ messages[inv[i].assistantId].conversation_id = inv[i].convId
            /\ DeadLettersOf(i) = {}

\* C4 witness: three sends have timed out and processMessage has returned.
C4_Witness ==
    \E i \in DOMAIN inv :
        /\ SendExhausted(i) /\ Cardinality(SendsOf(i)) = 3
        /\ \A k \in SendsOf(i) : outbound[k].status = "timeout"
        /\ inv[i].result.warning

\* The tenant of the message is fully configured.
Configured(i) ==
    /\ supabase
    /\ ConnectionsOf(Row(i)) # {}
    /\ Row(i).user_id \in voiceflow_mappings
    /\ (Row(i).user_id \in voiceflow_api_keys \/ envApiKey)

UserRows == { k \in 1..Len(messages) : messages[k].sender_type = "user" }

AssistantRows == { k \in 1..Len(messages) : messages[k].sender_type = "assistant" }

\* C5: when processMessage returns for a text message of a configured tenant and
\* no external call has failed, the message (and each one before it) has added
\* exactly one user row with its text, one AI call with participantId and platform
\* of the message, one assistant row and one POST to the send API with the sender
\* as recipient, and the result is a success without warning.
C5_FailureFreePath ==
    \A i \in DOMAIN inv :
        ( /\ Returned(i) /\ faults = MaxFaults /\ Configured(i)
          /\ Row(i).kind \in {"message", "instagram"} ) =>
            LET n == inv[i].processed + 1
            IN  /\ Cardinality(UserRows) = n
                /\ inv[i].savedId \in UserRows
                /\ messages[inv[i].savedId].content = Row(i).text
                /\ Len(aiCalls) = n
                /\ aiCalls[n].participantId = Row(i).sender_id
                /\ aiCalls[n].platform = Row(i).platform
                /\ aiCalls[n].text = Row(i).text
                /\ Cardinality(AssistantRows) = n
                /\ inv[i].assistantId \in AssistantRows
                /\ Len(outbound) = n
                /\ outbound[n].recipient = Row(i).sender_id
                /\ outbound[n].queueId = inv[i].msg
                /\ inv[i].result = Result(TRUE, FALSE, NULL)
                /\ dead_letter_queue = <<>>

\* C5 witness: the text "Hello" of sender S1 to page P1 of tenant T1 has been
\* processed without a failure.
C5_Witness ==
    \E i \in DOMAIN inv :
        /\ Returned(i) /\ faults = MaxFaults /\ Configured(i)
        /\ inv[i].processed = 0
        /\ Row(i).kind = "message" /\ Row(i).sender_id = "S1"
        /\ Row(i).recipient_id = "P1" /\ Row(i).user_id = "T1"
        /\ Len(outbound) = 1 /\ outbound[1].recipient = "S1"
        /\ inv[i].result.success

\* C6: processMessage always returns a result, a failure being {success: false}
\* with its error; so when the handler has answered after claiming messages, it
\* answers for the whole batch: each claimed message was processed, has its own
\* result and is marked completed or failed.
C6_BatchIsolation ==
    \A i \in DOMAIN inv :
        /\ Returned(i) =>
              (inv[i].result.success \/ inv[i].result.error # NULL)
        /\ (Answered(i) /\ inv[i].claimed # {}) =>
              /\ inv[i].response = HandlerResponse(200, "success", inv[i].queued,
                                                   Cardinality(inv[i].claimed))
              /\ Len(inv[i].results) = Cardinality(inv[i].claimed)
              /\ \A id \in inv[i].claimed :
                    /\ \E k \in 1..Len(inv[i].results) : inv[i].results[k].id = id
                    /\ message_queue[id].status \in {"completed", "failed"}

\* C6 witness: of two messages claimed in one batch the first has failed and the
\* second has been processed with success.
C6_Witness ==
    \E i \in DOMAIN inv :
        /\ Answered(i) /\ Cardinality(inv[i].claimed) = 2
        /\ Len(inv[i].results) = 2
        /\ ~inv[i].results[1].result.success
        /\ inv[i].results[2].result.success

------------------------------------------------------------------------------
(* Claims about the failures of the ingestion handler *)

\* C7 as stated: whatever is raised while a POST is handled is answered 200 with
\* an error body, and no POST is answered 5xx.
C7_FailuresSwallowedAsStated ==
    \A i \in DOMAIN inv :
        Answered(i) =>
            /\ inv[i].response.statusCode < 500
            /\ inv[i].raised # NULL =>
                  (inv[i].response.statusCode = 200 /\ inv[i].response.status = "error")

\* C7: a failure raised after the body has parsed as JSON (reading the entries,
\* enqueueing, the inline drain) is answered 200 with an error body; a body that
\* does not parse is answered 400; a POST is answered 200, 400 or 401, never 5xx.
C7_FailuresSwallowed ==
    \A i \in DOMAIN inv :
        Answered(i) =>
            /\ inv[i].response.statusCode \in {200, 400, 401}
            /\ inv[i].raised = "JSON.parse" => inv[i].response.statusCode = 400
            /\ inv[i].raised \notin {NULL, "JSON.parse"} =>
                  (inv[i].response.statusCode = 200 /\ inv[i].response.status = "error")

\* C7 witness: queueMessage has raised and the POST is answered 200 with an error
\* body.
C7_Witness ==
    \E i \in DOMAIN inv :
        /\ Answered(i) /\ inv[i].raised = "queueMessage"
        /\ inv[i].response.statusCode = 200 /\ inv[i].response.status = "error"

------------------------------------------------------------------------------
(* Claims about concurrent drains *)

\* C8: whatever the interleaving of the invocations, no queue row is claimed by
\* two of them, a row that left status pending is claimed by one of them, and no
\* row is processed twice.
C8_NoDoubleClaim ==
    /\ \A i, j \in DOMAIN inv : i # j => inv[i].claimed \cap inv[j].claimed = {}
    /\ \A k \in 1..Len(message_queue) :
          /\ message_queue[k].status # "pending" =>
                (\E i \in DOMAIN inv : k \in inv[i].claimed)
          /\ message_queue[k].attempts <= 1

\* C8 witness: two invocations have queued one message each and both have run the
\* drain; the first claimed both rows, the second none.
C8_Witness ==
    /\ Len(message_queue) = 2
    /\ \E i, j \in DOMAIN inv :
          /\ i # j
          /\ inv[i].claimed = {1, 2}
          /\ inv[j].claimed = {} /\ inv[j].queued = 1
          /\ inv[j].pc \in {"next", "done"}

------------------------------------------------------------------------------
(* Claims about the events of a payload *)

\* The invocation is at an event of the payload, and the step examines it.
Examines(i, next) ==
    /\ inv[i].pc = "enqueue" /\ inv[i].events # <<>>
    /\ Len(next.events) < Len(inv[i].events)

\* C14: the step that examines a Facebook event whose message has is_echo = true
\* (and that carries no postback) adds no row to the queue, counts nothing as
\* queued and goes on with the payload.
C14_EchoNotQueued ==
    [][\A i \in DOMAIN inv :
          ( /\ Examines(i, inv'[i])
            /\ inv[i].platform = "facebook"
            /\ Head(inv[i].events).hasMessage /\ Head(inv[i].events).is_echo
            /\ Head(inv[i].events).postback = NULL )
          => /\ message_queue' = message_queue
             /\ inv'[i].queued = inv[i].queued
             /\ inv'[i].enqueued = inv[i].enqueued
             /\ inv'[i].pc = "enqueue"]_vars

\* C14 witness: the handler has examined the echo of a payload and the queue is
\* empty.
C14_Witness ==
    \E i \in DOMAIN inv :
        /\ inv[i].pc = "enqueue" /\ inv[i].platform = "facebook"
        /\ inv[i].last = FbEcho /\ inv[i].events = <<>>
        /\ inv[i].queued = 0 /\ message_queue = <<>>

\* C15: the step that examines an event with a postback and no message, on either
\* channel, adds exactly one row of postback type holding the postback to the
\* queue, unless the data store rejects the insert.
C15_PostbackQueued ==
    [][\A i \in DOMAIN inv :
          ( /\ Examines(i, inv'[i])
            /\ inv[i].platform \in {"facebook", "instagram"}
            /\ Head(inv[i].events).postback # NULL
            /\ ~Head(inv[i].events).hasMessage
            /\ Head(inv[i].events).sender # NULL
            /\ inv'[i].raised # "queueMessage" )
          => /\ Len(message_queue') = Len(message_queue) + 1
             /\ message_queue'[Len(message_queue')].kind = "postback"
             /\ message_queue'[Len(message_queue')].text = Head(inv[i].events).postback
             /\ message_queue'[Len(message_queue')].status = "pending"
             /\ inv'[i].queued = inv[i].queued + 1]_vars

\* C16: a payload of object 'page' or 'instagram' is handled without anything
\* being raised by the shape of an entry or event: a missing entry list or a
\* missing sender raises nothing and leaves no event of the payload unexamined.
C16_UnknownShapesSkipped ==
    \A i \in DOMAIN inv :
        Answered(i) =>
            /\ inv[i].raised \notin {"data.entry", "evt.sender"}
            /\ inv[i].raised # "queueMessage" => inv[i].events = <<>>

\* C17: the step that handles a POST whose signature is not rejected answers 400
\* when the path lacks the tenant or the channel, when the channel is neither
\* facebook nor instagram, or when the body is not JSON, and 200 'ignored' when the
\* object is neither 'page' nor 'instagram'; that step ends the invocation, queues
\* nothing and leaves the data store, the AI backend and the send API untouched.
C17_RejectedPostsHaveNoEffect ==
    [][\A i \in DOMAIN inv :
          ( /\ inv[i].pc = "received" /\ inv'[i].pc # "received"
            /\ ~(inv[i].event.secret /\ ~inv[i].event.signatureValid) )
          => LET e == inv[i].event
                 seg == e.pathSegments
                 badPath == \/ Len(seg) < 5
                            \/ seg[3] # "webhooks"
                            \/ seg[4] = "" \/ seg[5] = ""
                 badChannel == ~badPath /\ seg[5] \notin {"facebook", "instagram"}
                 notJson == ~e.body.json
                 otherObject == e.body.json /\ e.body.object \notin {"page", "instagram"}
                 NoEffect == /\ inv'[i].pc = "done"
                             /\ inv'[i].queued = 0 /\ inv'[i].enqueued = {}
                             /\ inv'[i].batch = <<>> /\ inv'[i].claimed = {}
                             /\ inv'[i].processed = 0 /\ inv'[i].results = <<>>
                             /\ UNCHANGED <<storeVars, aiCalls, outbound>>
             IN  /\ (badPath \/ badChannel \/ notJson) =>
                       (inv'[i].response.statusCode = 400 /\ NoEffect)
                 /\ (~badPath /\ ~badChannel /\ otherObject) =>
                       (inv'[i].response = HandlerResponse(200, "ignored", 0, 0) /\ NoEffect)
          ]_vars

\* C17 witness: a payload of another object has been answered 200 'ignored' and
\* the queue is empty.
C17_Witness ==
    \E i \in DOMAIN inv :
        /\ Answered(i) /\ inv[i].response = HandlerResponse(200, "ignored", 0, 0)
        /\ inv[i].parsed /\ message_queue = <<>> /\ inv[i].claimed = {}

------------------------------------------------------------------------------
(* Claims about the session context *)

\* The value of a key of a context map (null when the key is absent).
GetKey(context, key) ==
    IF HasKey(context, key)
    THEN context[CHOOSE k \in 1..Len(context) : context[k][1] = key][2]
    ELSE NULL

\* Updates of one or two keys.
MergeUpdates ==
    { << <<k, v>> >> : k \in {"a", "topic"}, v \in {"1", "2"} }
    \cup { << <<"a", v>>, <<"topic", w>> >> : v \in {"1", "2"}, w \in {"1", "2"} }

\* The contexts the merge is applied to: the empty one and those of the sessions.
MergeContexts == {<<>>} \cup { sessions[k].context : k \in 1..Len(sessions) }

\* C18: on the empty context and on every context a session reaches, merging an
\* update twice gives what merging it once gives, merging {a:1} then {a:2} leaves
\* a = 2, and a key the update does not name keeps its value; and when
\* processMessage returns a success the context of the session holds
\* lastUserMessage, every variable the reply reported and lastAssistantMessage.
C18_ContextMerge ==
    /\ \A c \in MergeContexts :
          /\ \A u \in MergeUpdates :
                /\ MergeContext(MergeContext(c, u), u) = MergeContext(c, u)
                /\ \A k \in 1..Len(c) :
                      ~HasKey(u, c[k][1]) =>
                          GetKey(MergeContext(c, u), c[k][1]) = c[k][2]
                /\ \A k \in 1..Len(u) : GetKey(MergeContext(c, u), u[k][1]) = u[k][2]
          /\ GetKey(MergeContext(MergeContext(c, << <<"a", "1">> >>),
                                 << <<"a", "2">> >>), "a") = "2"
    /\ \A i \in DOMAIN inv :
          (Returned(i) /\ inv[i].result.success) =>
              LET c == sessions[inv[i].sessionId].context
                  reported == ExtractContextFromVoiceflowResponse(inv[i].reply)
              IN  /\ GetKey(c, "lastUserMessage") = Row(i).text
                  /\ GetKey(c, "lastAssistantMessage") = FormatVoiceflowResponse(inv[i].reply)
                  /\ \A k \in 1..Len(reported) : GetKey(c, reported[k][1]) = reported[k][2]

\* C18 witness: a message whose reply reported the variable topic has been
\* processed with success; the context holds the three keys of the exchange.
C18_Witness ==
    \E i \in DOMAIN inv :
        /\ Returned(i) /\ inv[i].result.success /\ inv[i].reply = ReplyWithVars
        /\ sessions[inv[i].sessionId].context =
              << <<"lastUserMessage", "Hello">>, <<"topic", "sales">>,
                 <<"lastAssistantMessage", "Hi [[SET:topic=sales]]">> >>

------------------------------------------------------------------------------
(* Claims about the channel connection *)

\* C19: every POST to the send API is made with the credential of a connection of
\* the message's tenant and channel account that has not expired; and when the
\* message has no connection, processMessage returns a failure having created no
\* session, conversation or message row for it, called the AI backend or the send
\* API for it.
C19_SendOnlyWithActiveConnection ==
    \A i \in DOMAIN inv :
        /\ (inv[i].msg # 0 /\ SendsOf(i) # {}) =>
              \E c \in ConnectionsOf(Row(i)) :
                  /\ c.token_expiry = "future"
                  /\ \A k \in SendsOf(i) : outbound[k].access_token = c.access_token
        /\ (Returned(i) /\ supabase /\ ConnectionsOf(Row(i)) = {}) =>
              /\ ~inv[i].result.success
              /\ inv[i].sessionId = 0 /\ inv[i].convId = 0 /\ inv[i].savedId = 0
              /\ sessions = <<>> /\ conversations = <<>> /\ messages = <<>>
              /\ aiCalls = <<>> /\ outbound = <<>>

------------------------------------------------------------------------------
(* Claims about redelivered events *)

\* C20: however often the platform delivers the same event (same channel message
\* id), a conversation holds at most one user row with that external id, and the
\* contact is sent at most one reply for it.
C20_ReprocessingSafe ==
    /\ \A k1, k2 \in UserRows :
          ( /\ messages[k1].conversation_id = messages[k2].conversation_id
            /\ messages[k1].external_id # NULL
            /\ messages[k1].external_id = messages[k2].external_id ) => k1 = k2
    /\ \A k1, k2 \in 1..Len(outbound) :
          ( /\ outbound[k1].status = "ok" /\ outbound[k2].status = "ok"
            /\ outbound[k1].recipient = outbound[k2].recipient
            /\ message_queue[outbound[k1].queueId].mid =
                  message_queue[outbound[k2].queueId].mid ) => k1 = k2

------------------------------------------------------------------------------
(* Claims about the find-or-create of the conversation *)

\* The key of a conversation: tenant, channel and external contact.
ConversationKey(c) == <<c.user_id, c.platform, c.external_id>>

\* Two conversation rows share their key.
DuplicateConversations ==
    \E a, b \in 1..Len(conversations) :
        a # b /\ ConversationKey(conversations[a]) = ConversationKey(conversations[b])

\* C21: the read and the conditional insert of getOrCreateConversation are two
\* steps. An invocation that saw no conversation inserts one when its insert
\* runs, whatever rows other invocations have written for the contact in the
\* meantime, so that two rows for one (tenant, channel, contact) are reachable.
C21_InsertAfterStaleRead ==
    [][\A i \in DOMAIN inv :
          (inv[i].pc = "insertConversation" /\ inv'[i].pc = "linkSessionToConversation")
              => /\ Len(conversations') = Len(conversations) + 1
                 /\ inv'[i].convId = Len(conversations')
                 /\ ConversationKey(conversations'[Len(conversations')])
                        = <<Row(i).user_id, Row(i).platform, Row(i).sender_id>>]_vars

\* C27: when getOrCreateConversation has returned, the stored conversation of
\* the contact carries the timestamp of the message as last_message_at and the
\* session just obtained as its session; and with one invocation at a time no
\* two conversation rows share a key.
C27_ExistingConversationRefreshed ==
    /\ ~DuplicateConversations
    /\ \A i \in DOMAIN inv :
          inv[i].pc = "linkSessionToConversation" =>
             /\ inv[i].convId \in 1..Len(conversations)
             /\ ConversationKey(conversations[inv[i].convId])
                    = <<Row(i).user_id, Row(i).platform, Row(i).sender_id>>
             /\ conversations[inv[i].convId].last_message_at = Row(i).timestamp
             /\ conversations[inv[i].convId].session_id = inv[i].sessionId

\* C21 witness: two invocations have each inserted a conversation for the same
\* contact.
C21_Witness ==
    /\ DuplicateConversations
    /\ \E i, j \in DOMAIN inv :
          /\ i # j /\ inv[i].convId # 0 /\ inv[j].convId # 0
          /\ inv[i].convId # inv[j].convId
          /\ ConversationKey(conversations[inv[i].convId])
                 = ConversationKey(conversations[inv[j].convId])

------------------------------------------------------------------------------
(* Claims about the retries of the stages of processMessage *)

\* The calls to the AI backend made for the message the invocation is on.
AICallsOf(i) ==
    { k \in 1..Len(aiCalls) :
         inv[i].savedId # 0 /\ aiCalls[k].messageId = inv[i].savedId }

NoAgentMessage == "No Voiceflow agent configured"

\* The message the invocation is on has failed for want of an agent mapping.
NoAgentFailure(i) == Returned(i) /\ inv[i].result.error = NoAgentMessage

\* C22: a lookup that finds no agent mapping for the tenant is not repeated: the
\* step that finds none ends processMessage with success=false and the error
\* "No Voiceflow agent configured", on the attempt it was made; when nothing else
\* has failed that is the first attempt; and no AI call, no dead-letter record,
\* no assistant row and no send exist for the message.
C22_NoAgentNotRetried ==
    /\ [](\A i \in DOMAIN inv :
            NoAgentFailure(i) =>
               /\ ~inv[i].result.success
               /\ AICallsOf(i) = {}
               /\ DeadLettersOf(i) = {}
               /\ AssistantRowsOf(i) = {} /\ inv[i].assistantId = 0
               /\ SendsOf(i) = {}
               /\ (faults = MaxFaults => inv[i].attempt = 1))
    /\ [][\A i \in DOMAIN inv :
            (/\ inv[i].pc = "getVoiceflowMapping" /\ inv'[i] # inv[i]
             /\ faults' = faults
             /\ Row(i).user_id \notin voiceflow_mappings)
               => /\ inv'[i].pc = "return"
                  /\ inv'[i].result = Result(FALSE, FALSE, NoAgentMessage)
                  /\ inv'[i].attempt = inv[i].attempt]_vars

\* C22 witness: the message of a tenant without agent mapping has failed on the
\* first lookup, its user row saved.
C22_Witness ==
    \E i \in DOMAIN inv :
        /\ NoAgentFailure(i) /\ inv[i].attempt = 1 /\ inv[i].savedId # 0
        /\ voiceflow_mappings = {}

\* The position of a step of processMessage in the order of its stages.
StageRank(pc) ==
    CASE pc = "getSocialConnection" -> 1
      [] pc = "getOrCreateSession" -> 2
      [] pc \in {"selectConversation", "insertConversation", "updateConversation"} -> 3
      [] pc = "linkSessionToConversation" -> 4
      [] pc = "saveUserMessage" -> 5
      [] pc = "updateContextUser" -> 6
      [] pc = "getVoiceflowMapping" -> 7
      [] pc = "getApiKey" -> 8
      [] pc = "prepareVoiceflowContext" -> 9
      [] pc = "callVoiceflow" -> 10
      [] pc = "updateContextAI" -> 11
      [] pc = "extendSession" -> 12
      [] pc = "saveToDeadLetterQueue" -> 13
      [] pc = "saveAssistantMessage" -> 14
      [] pc = "updateContextAssistant" -> 15
      [] pc = "sendResponse" -> 16
      [] pc = "return" -> 17
      [] OTHER -> 0

\* The invocation is inside processMessage.
InProcessMessage(i) == StageRank(inv[i].pc) \in 1..16

\* C23: within one execution of processMessage the AI backend is called at most
\* three times and the send API at most three times, and a step of a stage never
\* leads back to an earlier stage: once the user row is inserted no step of the
\* execution inserts a user row, a conversation or a session again, and once the
\* AI call is over no step calls the AI backend again.
C23_RetryBudgetsDoNotCascade ==
    /\ [](\A i \in DOMAIN inv :
            /\ Cardinality(AICallsOf(i)) <= 3
            /\ Cardinality(SendsOf(i)) <= 3)
    /\ [][\A i \in DOMAIN inv :
            (InProcessMessage(i) /\ inv'[i] # inv[i]) =>
               /\ inv'[i].msg = inv[i].msg
               /\ StageRank(inv'[i].pc) >= StageRank(inv[i].pc)
               /\ StageRank(inv[i].pc) > 5 =>
                    /\ inv'[i].savedId = inv[i].savedId
                    /\ { k \in 1..Len(messages') : messages'[k].sender_type = "user" }
                          = UserRows
                    /\ Len(conversations') = Len(conversations)
                    /\ Len(sessions') = Len(sessions)
               /\ StageRank(inv[i].pc) > 10 => aiCalls' = aiCalls]_vars

\* C23 witness: the AI call has been made three times and the send twice for
\* one message, which has one user row.
C23_Witness ==
    \E i \in DOMAIN inv :
        /\ Returned(i)
        /\ Cardinality(AICallsOf(i)) = 3
        /\ Cardinality(SendsOf(i)) = 2
        /\ Cardinality(UserRows) = 1

------------------------------------------------------------------------------
(* Claims about the order of the stages of processMessage *)

\* C24: the stages of processMessage run in sequence, each after the success of
\* the one before: the session is looked up with the connection found, the
\* conversation with the session, the user row is inserted into the conversation,
\* every AI call carries the id of a persisted user row, the assistant row is
\* inserted after an answered AI call, and every send follows the insert of the
\* assistant row of its message.
C24_StagesInOrder ==
    /\ \A k \in 1..Len(aiCalls) : aiCalls[k].messageId \in UserRows
    /\ \A i \in DOMAIN inv :
        LET rank == StageRank(inv[i].pc)
        IN  /\ (rank \in 2..16 \/ inv[i].sessionId # 0) => inv[i].accessToken # NULL
            /\ (rank \in 3..16 \/ inv[i].convId # 0) => inv[i].sessionId \in 1..Len(sessions)
            /\ (rank \in 4..16 \/ inv[i].savedId # 0) => inv[i].convId \in 1..Len(conversations)
            /\ (rank \in 6..16 \/ AICallsOf(i) # {}) =>
                  /\ inv[i].savedId \in UserRows
                  /\ messages[inv[i].savedId].conversation_id = inv[i].convId
            /\ (rank \in {11, 12} \/ inv[i].aiOk) => AICallsOf(i) # {}
            /\ (rank \in 14..16 \/ inv[i].assistantId # 0) =>
                  inv[i].aiOk /\ inv[i].extendInvoked
            /\ (rank \in 15..16 \/ SendsOf(i) # {}) =>
                  /\ inv[i].assistantId \in AssistantRows
                  /\ inv[i].assistantId > inv[i].savedId

\* C24 witness: a message has gone through every stage, down to the send.
C24_Witness ==
    \E i \in DOMAIN inv :
        /\ Returned(i) /\ SendsOf(i) # {}
        /\ inv[i].accessToken # NULL /\ inv[i].sessionId # 0 /\ inv[i].convId # 0
        /\ inv[i].savedId # 0 /\ AICallsOf(i) # {} /\ inv[i].assistantId # 0

\* The AI call of the message has been answered and the steps that follow it
\* inside its try block are over.
AfterAIExchange(i) == inv[i].aiOk /\ StageRank(inv[i].pc) \notin {11, 12}

\* C25 as stated: whenever the AI call of a message has returned successfully
\* extendSession has been invoked for its session, and extendSession is never
\* invoked for a message whose AI call failed.
C25_ExtendedOnEverySuccessfulExchange ==
    \A i \in DOMAIN inv :
        /\ AfterAIExchange(i) => inv[i].extendInvoked
        /\ inv[i].extendInvoked => inv[i].aiOk /\ ~inv[i].aiFailed

\* C25: extendSession is invoked only for a message whose AI call has returned
\* successfully, and it is invoked before the assistant message is saved. After
\* a successful AI call it is invoked unless the update of the session context
\* with the variables of the reply has failed; then it is not invoked and no
\* assistant message is saved.
C25_ExtendedAfterSuccessfulExchange ==
    \A i \in DOMAIN inv :
        /\ inv[i].extendInvoked => inv[i].aiOk /\ ~inv[i].aiFailed
        /\ (StageRank(inv[i].pc) \in 14..16 \/ inv[i].assistantId # 0)
              => inv[i].extendInvoked
        /\ AfterAIExchange(i) =>
              \/ inv[i].extendInvoked
              \/ /\ ExtractContextFromVoiceflowResponse(inv[i].reply) # <<>>
                 /\ inv[i].vfError \in StoreErrors
                 /\ inv[i].assistantId = 0

\* C25 witness: the AI call of a message was answered, its session was extended
\* and the message went on to its reply.
C25_Witness ==
    \E i \in DOMAIN inv :
        /\ Returned(i) /\ inv[i].aiOk /\ inv[i].extendInvoked
        /\ sessions[inv[i].sessionId].extended = 1
        /\ inv[i].result.success

------------------------------------------------------------------------------
(* Claims about the dead-letter records *)

\* C26: a dead-letter record exists only for a message whose AI backend call
\* failed after its retries; none exists for a message whose AI call was
\* answered, nor for a message that failed before the AI call.
C26_DeadLetterOnlyForAIFailure ==
    \A i \in DOMAIN inv :
        DeadLettersOf(i) # {} =>
            inv[i].aiFailed /\ ~inv[i].aiOk

------------------------------------------------------------------------------
(* Claims about the context extracted from the reply *)

\* The signals of one item of a reply: the entries of a set-variables payload,
\* the markers of a text item that has a message.
ItemSignals(item) ==
    IF item.type = "set-variables" THEN item.payload
    ELSE IF item.type = "text" /\ Truthy(item.message) THEN item.markers
    ELSE <<>>

\* The signals of a reply body, in reply order.
RECURSIVE ItemsSignals(_)
ItemsSignals(items) ==
    IF items = <<>> THEN <<>>
    ELSE ItemSignals(Head(items)) \o ItemsSignals(Tail(items))

ReplySignals(reply) == IF reply.isArray THEN ItemsSignals(reply.items) ELSE <<>>

\* C28: the map extracted from the reply of the AI backend has exactly the keys
\* of the set-variables payloads and of the markers of the text items, each once
\* and with the value of its last occurrence in reply order; it is empty for a
\* reply that is not an array or carries no signal, and processMessage updates
\* the session context with the variables of the reply only when the map is not
\* empty.
C28_ContextExtraction ==
    \A i \in DOMAIN inv :
        /\ inv[i].aiOk =>
             LET updates == ExtractContextFromVoiceflowResponse(inv[i].reply)
                 signals == ReplySignals(inv[i].reply)
             IN  /\ \A a, b \in 1..Len(updates) : updates[a][1] = updates[b][1] => a = b
                 /\ { updates[k][1] : k \in 1..Len(updates) }
                       = { signals[k][1] : k \in 1..Len(signals) }
                 /\ \A k \in 1..Len(signals) :
                       (\A j \in (k + 1)..Len(signals) : signals[j][1] # signals[k][1])
                          => GetKey(updates, signals[k][1]) = signals[k][2]
                 /\ (~inv[i].reply.isArray \/ signals = <<>>) => updates = <<>>
        /\ inv[i].pc = "updateContextAI" =>
             inv[i].aiOk /\ ReplySignals(inv[i].reply) # <<>>

\* C28 witness: a reply with a marker before the variables and a second key was
\* processed, and the session holds the later topic and the language.
C28_Witness ==
    \E i \in DOMAIN inv :
        /\ Returned(i) /\ inv[i].result.success /\ inv[i].reply = ReplyMarkerFirst
        /\ GetKey(sessions[inv[i].sessionId].context, "topic") = "billing"
        /\ GetKey(sessions[inv[i].sessionId].context, "lang") = "en"

------------------------------------------------------------------------------
(* Claims about the message rows *)

\* C29: the message rows are only ever appended to: no step changes or removes
\* a row, and a step that adds one is a step of processMessage that adds a
\* single row referencing the conversation it found or created, whose key is the
\* tenant, channel and sender of the message being processed; the key of a
\* conversation never changes, so every message row belongs to one conversation
\* of one tenant.
C29_MessagesAppendOnly ==
    /\ [](\A k \in 1..Len(messages) :
            /\ messages[k].id = k
            /\ messages[k].conversation_id \in 1..Len(conversations))
    /\ [][/\ Len(messages') \in {Len(messages), Len(messages) + 1}
          /\ \A k \in 1..Len(messages) : messages'[k] = messages[k]
          /\ Len(conversations') >= Len(conversations)
          /\ \A c \in 1..Len(conversations) :
                ConversationKey(conversations'[c]) = ConversationKey(conversations[c])
          /\ Len(messages') = Len(messages) + 1 =>
                \E i \in DOMAIN inv :
                    /\ InProcessMessage(i) /\ inv'[i] # inv[i]
                    /\ messages'[Len(messages')].conversation_id = inv[i].convId
                    /\ inv[i].convId \in 1..Len(conversations)
                    /\ ConversationKey(conversations[inv[i].convId])
                          = <<Row(i).user_id, Row(i).platform, Row(i).sender_id>>]_vars

\* C29 witness: the messages of two contacts have been processed; each contact
\* has a conversation of its own, holding its user row and its assistant row.
C29_Witness ==
    /\ Len(conversations) = 2 /\ Len(messages) = 4
    /\ conversations[1].external_id = "S1" /\ conversations[2].external_id = "S2"
    /\ messages[1].conversation_id = 1 /\ messages[2].conversation_id = 1
    /\ messages[3].conversation_id = 2 /\ messages[4].conversation_id = 2
    /\ messages[3].sender_type = "user" /\ messages[4].sender_type = "assistant"

------------------------------------------------------------------------------
(* Claims about the rows of the queue *)

\* The moves of the status of a queued message.
QueueMoves ==
    { <<"pending", "processing">>, <<"processing", "completed">>,
      <<"processing", "failed">> }

\* C30: a queued message is created pending with no attempt; afterwards only its
\* status and its attempt count change, the status along pending -> processing
\* -> completed or failed, the attempt count never downwards; a row is never
\* removed, and a completed or failed row is never changed again, so it is never
\* claimed again. The rows an invocation holds are rows it has claimed.
C30_QueueLifecycle ==
    /\ [](\A i \in DOMAIN inv :
            \A k \in 1..Len(inv[i].batch) :
                message_queue[inv[i].batch[k]].status = "processing")
    /\ [][/\ Len(message_queue') >= Len(message_queue)
          /\ \A k \in (Len(message_queue) + 1)..Len(message_queue') :
                /\ message_queue'[k].status = "pending"
                /\ message_queue'[k].attempts = 0
          /\ \A k \in 1..Len(message_queue) :
                /\ [message_queue'[k] EXCEPT !.status = message_queue[k].status,
                                             !.attempts = message_queue[k].attempts]
                      = message_queue[k]
                /\ message_queue'[k].attempts >= message_queue[k].attempts
                /\ \/ message_queue'[k].status = message_queue[k].status
                   \/ <<message_queue[k].status, message_queue'[k].status>> \in QueueMoves
                /\ message_queue[k].status \in {"completed", "failed"}
                      => message_queue'[k] = message_queue[k]]_vars

\* C30 witness: of two queued messages one has been completed and the other has
\* failed, each after one attempt.
C30_Witness ==
    \E a, b \in 1..Len(message_queue) :
        /\ message_queue[a].status = "completed" /\ message_queue[a].attempts = 1
        /\ message_queue[b].status = "failed" /\ message_queue[b].attempts = 1

------------------------------------------------------------------------------
(* Claims about the drain of the queue *)

\* C31: every queued message that is pending is eventually completed or failed.
C31_QueueLiveness ==
    \A k \in 1..MaxEvents :
        (k <= Len(message_queue) /\ message_queue[k].status = "pending")
            ~> (/\ k <= Len(message_queue)
                /\ message_queue[k].status \in {"completed", "failed"})

\* The invocation is in the inline drain or past it.
InDrain(i) == inv[i].pc = "next" \/ StageRank(inv[i].pc) \in 1..17

\* C32: the inline drain starts only when every event of the request has been
\* examined and the accepted ones are persisted; it claims and processes at most
\* two queued messages; a success response reports as queued the number of rows
\* the request persisted; and when an enqueue has failed midway nothing is
\* claimed or processed and the rows already persisted are still pending.
C32_DrainAfterEnqueue ==
    \A i \in DOMAIN inv :
        /\ inv[i].enqueued \subseteq 1..Len(message_queue)
        /\ InDrain(i) =>
              /\ inv[i].events = <<>> /\ inv[i].raised = NULL
              /\ inv[i].queued = Cardinality(inv[i].enqueued)
              /\ inv[i].queued = QueuedCount(
                    [pathSegments |-> <<"", "api", "webhooks", inv[i].userId,
                                        inv[i].platform>>,
                     body |-> [events |-> LongBatch]])
        /\ Cardinality(inv[i].claimed) <= 2 /\ inv[i].processed <= 2
        /\ Len(inv[i].results) = inv[i].processed
        /\ inv[i].response.status = "success" =>
              /\ inv[i].response.queued = Cardinality(inv[i].enqueued)
              /\ inv[i].response.processed = inv[i].processed
        /\ inv[i].raised \in {"queueMessage", "evt.sender"} =>
              /\ inv[i].claimed = {} /\ inv[i].processed = 0
              /\ \A k \in inv[i].enqueued : message_queue[k].status = "pending"

\* C32 witness: a request of three messages was answered with queued 3 and
\* processed 2; the third row is still pending.
C32_Witness ==
    \E i \in DOMAIN inv :
        /\ inv[i].response = HandlerResponse(200, "success", 3, 2)
        /\ Len(message_queue) = 3 /\ message_queue[3].status = "pending"
        /\ inv[i].claimed = {1, 2}

------------------------------------------------------------------------------
(* Claims about the authentication of the App component at startup *)

\* A retry of initializeAuth is scheduled or running.
RetryInFlight ==
    /\ app.mounted /\ app.retryCount > 0
    /\ app.pc \in {"timer", "checkSupabaseAuth", "checkSupabaseDB", "getSession",
                   "getCurrentUser"}

\* C33: while a retry of initializeAuth is scheduled or running the state of
\* the component has not been updated: loading is true, authChecked is false, and
\* the component renders the spinner, not the routes.
C33_RetryKeepsLoading ==
    RetryInFlight =>
        /\ app.loading /\ ~app.authChecked
        /\ Render(app) = "spinner"

\* A step of the auth client or of the listener callback: an event is emitted,
\* or the getCurrentUser the callback awaits resolves.
ListenerStep ==
    \/ app'.emitted = app.emitted + 1
    \/ app.fetching /\ ~app'.fetching

\* C34: a step of the listener changes the user only when the initial
\* authentication is complete and the component is mounted; and once the initial
\* authentication is complete, with the component mounted, a SIGNED_OUT event
\* sets the user to null and a SIGNED_IN or TOKEN_REFRESHED event makes the
\* callback fetch the current user.
C34_ListenerGated ==
    [][ListenerStep =>
          /\ app'.user # app.user => app.initialAuthComplete /\ app.mounted
          /\ (/\ app'.emitted = app.emitted + 1
              /\ app.initialAuthComplete /\ app.mounted) =>
                 IF app'.lastEvent = "SIGNED_OUT"
                 THEN app'.user = NULL
                 ELSE app'.fetching]_vars

\* The calls of initializeAuth that got past its guards: the first and the
\* retries.
MaxAttempts == maxRetries + 1

\* The initial authentication is over: initializeAuth has ended with the ref
\* initialAuthComplete set.
InitializationOver == app.pc = "ended" /\ app.initialAuthComplete

====
